---- MODULE Spec2Model ----
(***************************************************************************)
(* Real-time gateway of zubix-pod-backend (socket.ts, here                 *)
(* src/unnamed/part_001) and the room history route of                     *)
(* src/src/routes/rooms.ts.                                                *)
(*                                                                         *)
(* A handler that awaits is a task: every await is a scheduling point.  A  *)
(* store operation takes effect when it is issued and the code after the   *)
(* await runs in a later step, so other handlers interleave between a      *)
(* lookup or write and the code that uses its result.  Handlers without    *)
(* an await run in one step.                                               *)
(* A write carries the row's time as the store assigns it, except the      *)
(* chat.update of send-dm, whose value is the handler's own new Date():    *)
(* the handler read its clock after its insert returned, and the store     *)
(* applies the writes of concurrent handlers in the order it receives      *)
(* them from the connection pool, so the time written lies between the     *)
(* handler's insert and the moment the write is applied.                   *)
(*                                                                         *)
(* Transport (socket.io, in-memory adapter): a channel is a set of socket  *)
(* ids; join adds, leave removes; disconnecting leaves every channel       *)
(* before the 'disconnect' listeners run; an emit reaches only sockets     *)
(* that are still connected.                                               *)
(*                                                                         *)
(* A step leaves in `out` the events it delivered, each tagged with the    *)
(* handler that emitted it; Deliver ends the tick (the packets are on the  *)
(* wire) before the next handler runs.                                     *)
(*                                                                         *)
(* A lookup or write of the backing store may throw: the catch block of    *)
(* the handler then reports the failure (the ...Fails actions).  The       *)
(* specifications SpecRoom, SpecSend, SpecPresence, SpecWrite and SpecHist *)
(* describe the gateway over an available store; SpecFail adds the         *)
(* failures.                                                               *)
(***************************************************************************)
EXTENDS Bags, FiniteSets, Integers, Sequences, TLC

VARIABLES status, user, currentRoom, channels, members, messages,
          chatUpdatedAt, now, tasks, out, res, requests, chats

vars == <<status, user, currentRoom, channels, members, messages,
          chatUpdatedAt, now, tasks, out, res, requests, chats>>

----------------------------------------------------------------------------
\* Bounds

MaxTasks == 1
MaxMsgs == 1
MaxHist == 4
MaxLimit == 2
MaxChats == 2
MaxSenders == 2
MaxResponders == 2

----------------------------------------------------------------------------
\* The world: connections, identities and the rows of the backing store

None == "none"

Conns == {"c1", "c2"}

\* rows of the user table; u3 never opens a connection in this model
Users == {"u1", "u2", "u3"}

\* handshake.auth.token: absent, not verifiable, or signed for a user id
Tokens == {"none", "bad", "tok-u1", "tok-u2", "tok-u0"}

\* the tokens a connection presents: c1 is always the pod owner's
HandshakeTokens(c) == IF c = "c1" THEN {"tok-u1"} ELSE Tokens \ {"tok-u1"}

\* the users that call the pod membership routes
HttpUsers == {"u1", "u2"}

\* the users whose pod membership changes
Joiners == {"u2"}

\* pod p1 is owned by u1
PodOwner == [p1 |-> "u1"]

Pods == DOMAIN PodOwner

\* both rooms belong to pod p1; room id r0 names no room
RoomPod == [r1 |-> "p1", r2 |-> "p1"]

Rooms == DOMAIN RoomPod

RoomIds == Rooms \cup {"r0"}

\* chat k1 is between u1 and u3; chat id k0 names no chat
ChatParticipants == [k1 |-> {"u1", "u3"}]

Chats == DOMAIN ChatParticipants

ChatIds == Chats \cup {"k0"}

\* message contents: empty, whitespace-only, padded on both sides
Contents == {<<>>, <<" ">>, <<" ", "a", " ">>}

\* the initial messages of message requests: empty, padded on both sides
RequestContents == {<<>>, <<" ", "a", " ">>}

\* the users that send and receive message requests
Requesters == {"u1", "u2"}

\* the request rows there can be: (senderId, receiverId) is unique
RequestSender == [q12 |-> "u1", q21 |-> "u2"]

RequestReceiver == [q12 |-> "u2", q21 |-> "u1"]

RequestRows == DOMAIN RequestSender

\* request id q0 names no request
RequestIds == RequestRows \cup {"q0"}

\* a row that has not been created
NoRequest == [status |-> "none", initialMessage |-> <<>>]

\* the ids of the chats created by accepted requests, in creation order
CreatedChatIds == <<"k2", "k3", "k4", "k5">>

----------------------------------------------------------------------------
\* String.prototype.trim on the model alphabet

IsSpace(ch) == ch = " "

RECURSIVE TrimStart(_)
TrimStart(s) ==
  IF s = <<>> THEN s
  ELSE IF IsSpace(Head(s)) THEN TrimStart(Tail(s)) ELSE s

RECURSIVE TrimEnd(_)
TrimEnd(s) ==
  IF s = <<>> THEN s
  ELSE IF IsSpace(s[Len(s)]) THEN TrimEnd(SubSeq(s, 1, Len(s) - 1)) ELSE s

\* variant: only the leading whitespace is removed
TrimStartOnly(s) == TrimStart(s)

Trim(s) == TrimEnd(TrimStart(s))

\* variant: only the empty string counts as blank
IsBlankNoTrim(content) == content = <<>>

\* !content || !content.trim()
IsBlank(content) == content = <<>> \/ Trim(content) = <<>>

----------------------------------------------------------------------------
\* Transport channels

\* socket.join(roomId): the channel of a room is named by the room id
RoomChannel(r) == r

\* socket.join(`chat:${chatId}`)
ChatChannel(k) == IF k = "k1" THEN "chat:k1" ELSE "chat:k0"

\* socket.join(`user:${userId}`)
UserChannel(u) == IF u = "u1" THEN "user:u1" ELSE IF u = "u2" THEN "user:u2" ELSE "user:u3"

ChannelNames ==
  {RoomChannel(r) : r \in RoomIds} \cup {ChatChannel(k) : k \in ChatIds}
    \cup {UserChannel(u) : u \in Users}

\* variant: join does not add the socket to the channel
JoinNothing(chs, c, ch) == chs

Join(chs, c, ch) == [chs EXCEPT ![ch] = @ \cup {c}]

\* variant: leave keeps the socket in the channel
LeaveNothing(chs, c, ch) == chs

Leave(chs, c, ch) == [chs EXCEPT ![ch] = @ \ {c}]

LeaveAll(chs, c) == [ch \in ChannelNames |-> chs[ch] \ {c}]

\* one delivered event: to = receiving connection, by = connection whose
\* handler emitted it, op = that handler, ch = channel it was addressed to
\* (None for socket.emit)
Event(to, ev, ch, by, op, arg, msg) ==
  [to |-> to, ev |-> ev, ch |-> ch, by |-> by, op |-> op, arg |-> arg, msg |-> msg]

\* socket.emit(ev, ...): to the socket itself
SocketEmit(st, c, op, ev, arg, msg) ==
  IF st[c] = "connected" THEN SetToBag({Event(c, ev, None, c, op, arg, msg)})
  ELSE EmptyBag

\* socket.to(ch).emit(ev, ...): every socket of the channel but the emitter
SocketTo(st, chs, c, op, ch, ev, arg, msg) ==
  SetToBag({Event(d, ev, ch, c, op, arg, msg) :
              d \in {x \in chs[ch] \ {c} : st[x] = "connected"}})

\* variant: the broadcast skips the emitting socket
IoToOthers(st, chs, c, op, ch, ev, arg, msg) ==
  SetToBag({Event(d, ev, ch, c, op, arg, msg) :
              d \in {x \in chs[ch] \ {c} : st[x] = "connected"}})

\* io.to(ch).emit(ev, ...): every socket of the channel
IoTo(st, chs, c, op, ch, ev, arg, msg) ==
  SetToBag({Event(d, ev, ch, c, op, arg, msg) :
              d \in {x \in chs[ch] : st[x] = "connected"}})

----------------------------------------------------------------------------
\* Tasks: handlers suspended at an await

Task(c, kind, pc, target, content, found, msg) ==
  [conn |-> c, kind |-> kind, pc |-> pc, target |-> target,
   content |-> content, found |-> found, msg |-> msg]

\* an HTTP response, with the request it answers; body = ids of the messages
Response(code, body, u, r, lim, cur) ==
  [status |-> code, body |-> body, user |-> u, room |-> r, limit |-> lim,
   cursor |-> cur]

NoRes == Response(0, <<>>, None, None, 0, 0)

\* the previous tick is over
Idle == out = EmptyBag /\ res = NoRes

Spawn(t) == tasks (+) SetToBag({t})

Finish(t) == tasks (-) SetToBag({t})

Advance(t, u) == (tasks (-) SetToBag({t})) (+) SetToBag({u})

CanSpawn == BagCardinality(tasks) < MaxTasks

\* send handlers that have not inserted their message yet
PendingSends ==
  {t \in BagToSet(tasks) : t.kind \in {"send-message", "send-dm"} /\ t.msg = 0}

RECURSIVE Copies(_)
Copies(S) ==
  IF S = {} THEN 0
  ELSE LET t == CHOOSE x \in S : TRUE IN CopiesIn(t, tasks) + Copies(S \ {t})

CanSend == Len(messages) + Copies(PendingSends) < MaxMsgs

\* what the clock may read at the next store write or new Date(): the time
\* of the previous reading (the clock has millisecond resolution) or later
Clock == IF now = 0 THEN {1} ELSE {now, now + 1}

\* variant: the row references neither a room nor a chat
NewMessageNoTarget(roomId, chatId, senderId, content, t) ==
  [id |-> Len(messages) + 1, roomId |-> None, chatId |-> None,
   senderId |-> senderId, content |-> content, createdAt |-> t]

\* prisma.message.create: id and createdAt are set by the store
NewMessage(roomId, chatId, senderId, content, t) ==
  [id |-> Len(messages) + 1, roomId |-> roomId, chatId |-> chatId,
   senderId |-> senderId, content |-> content, createdAt |-> t]

----------------------------------------------------------------------------
Init ==
  /\ status = [c \in Conns |-> "new"]
  /\ user = [c \in Conns |-> None]
  /\ currentRoom = [c \in Conns |-> None]
  /\ channels = [ch \in ChannelNames |-> {}]
  /\ members = {}
  /\ messages = <<>>
  /\ chatUpdatedAt = [k \in Chats |-> 0]
  /\ now = 0
  /\ tasks = EmptyBag
  /\ out = EmptyBag
  /\ res = NoRes
  /\ requests = [q \in RequestRows |-> NoRequest]
  /\ chats = <<>>

\* the tick of the last handler step ends
Deliver ==
  /\ ~Idle
  /\ out' = EmptyBag
  /\ res' = NoRes
  /\ UNCHANGED <<status, user, currentRoom, channels, members, messages,
                 chatUpdatedAt, now, tasks>>
  /\ UNCHANGED <<requests, chats>>

----------------------------------------------------------------------------
\* Handshake: io.use(...) followed by io.on('connection')

\* verifyToken(token): the decoded user id, or None
VerifyToken(tok) ==
  CASE tok = "tok-u1" -> "u1"
    [] tok = "tok-u2" -> "u2"
    [] tok = "tok-u0" -> "u0"
    [] OTHER -> None

\* variant: the decoded user id is not looked up in the user table
AuthenticatedNoLookup(tok) ==
  /\ tok # "none"
  /\ VerifyToken(tok) # None

\* the middleware calls next() without an error
Authenticated(tok) ==
  /\ tok # "none"
  /\ VerifyToken(tok) # None
  /\ VerifyToken(tok) \in Users

Connect(c, tok) ==
  /\ Idle
  /\ status[c] = "new"
  /\ IF Authenticated(tok)
     THEN /\ status' = [status EXCEPT ![c] = "connected"]
          /\ user' = [user EXCEPT ![c] = VerifyToken(tok)]
          /\ channels' = Join(channels, c, UserChannel(VerifyToken(tok)))
     ELSE /\ status' = [status EXCEPT ![c] = "refused"]
          /\ UNCHANGED <<user, channels>>
  /\ out' = EmptyBag
  /\ res' = NoRes
  /\ UNCHANGED <<currentRoom, members, messages, chatUpdatedAt, now, tasks>>
  /\ UNCHANGED <<requests, chats>>

----------------------------------------------------------------------------
\* Authorization lookups

\* prisma.room.findUnique({ where: { id: roomId } })
RoomExists(r) == r \in Rooms

\* variant: the membership lookup always finds a row
IsMemberAlways(r, u) == TRUE

\* prisma.podMember.findUnique: the row of the room's pod and the user
IsMember(r, u) == <<RoomPod[r], u>> \in members

\* variant: ownership is never recognised
IsOwnerNever(r, u) == FALSE

\* room.pod.ownerId === socket.user.id
IsOwner(r, u) == PodOwner[RoomPod[r]] = u

\* variant: the participant lookup always finds a row
IsParticipantAlways(k, u) == TRUE

\* variant: every user is a participant of every chat there is
IsParticipantAnyUser(k, u) == k \in Chats

\* prisma.chatParticipant.findUnique: the row of the chat and the user
IsParticipant(k, u) == k \in Chats /\ u \in ChatParticipants[k]

----------------------------------------------------------------------------
\* join-room
\*
\* No room is created or deleted here, so the room lookup reads the same
\* row whenever it runs: the step that receives the event runs the code up
\* to the await of the membership lookup.

JoinRoomStart(c, r) ==
  /\ Idle
  /\ status[c] = "connected"
  /\ IF ~RoomExists(r)
     THEN /\ out' = SocketEmit(status, c, "join-room", "error", "Room not found", 0)
          /\ UNCHANGED tasks
     ELSE /\ CanSpawn
          /\ out' = EmptyBag
          /\ tasks' = Spawn(Task(c, "join-room", "member", r, <<>>,
                                 IsMember(r, user[c]), 0))
  /\ res' = NoRes
  /\ UNCHANGED <<status, user, currentRoom, channels, members, messages,
                 chatUpdatedAt, now>>
  /\ UNCHANGED <<requests, chats>>

\* variant: a connection already in the channel is not announced again
JoinRoomAfterMemberQuiet(t) ==
  /\ Idle
  /\ BagIn(t, tasks) /\ t.kind = "join-room" /\ t.pc = "member"
  /\ LET c == t.conn
         r == t.target
     IN IF ~t.found /\ ~IsOwner(r, user[c])
        THEN /\ out' = SocketEmit(status, c, "join-room", "error",
                         "You must be a member of this pod to join this room", 0)
             /\ UNCHANGED <<channels, currentRoom>>
        ELSE /\ channels' = Join(channels, c, RoomChannel(r))
             /\ currentRoom' = [currentRoom EXCEPT ![c] = r]
             /\ out' = (IF c \in channels[RoomChannel(r)] THEN EmptyBag
                        ELSE SocketTo(status, channels', c, "join-room",
                                      RoomChannel(r), "user-joined", r, 0))
                       (+) SocketEmit(status, c, "join-room", "room-joined", r, 0)
  /\ tasks' = Finish(t)
  /\ res' = NoRes
  /\ UNCHANGED <<status, user, members, messages, chatUpdatedAt, now>>
  /\ UNCHANGED <<requests, chats>>

JoinRoomAfterMember(t) ==
  /\ Idle
  /\ BagIn(t, tasks) /\ t.kind = "join-room" /\ t.pc = "member"
  /\ LET c == t.conn
         r == t.target
     IN IF ~t.found /\ ~IsOwner(r, user[c])
        THEN /\ out' = SocketEmit(status, c, "join-room", "error",
                         "You must be a member of this pod to join this room", 0)
             /\ UNCHANGED <<channels, currentRoom>>
        ELSE /\ channels' = Join(channels, c, RoomChannel(r))
             /\ currentRoom' = [currentRoom EXCEPT ![c] = r]
             /\ out' = SocketTo(status, channels', c, "join-room", RoomChannel(r),
                                "user-joined", r, 0)
                       (+) SocketEmit(status, c, "join-room", "room-joined", r, 0)
  /\ tasks' = Finish(t)
  /\ res' = NoRes
  /\ UNCHANGED <<status, user, members, messages, chatUpdatedAt, now>>
  /\ UNCHANGED <<requests, chats>>

----------------------------------------------------------------------------
\* leave-room

\* variant: the leave does not compare roomId with the active room
LeaveRoomAny(c, r) ==
  /\ Idle
  /\ status[c] = "connected"
  /\ channels' = Leave(channels, c, RoomChannel(r))
  /\ currentRoom' = [currentRoom EXCEPT ![c] = None]
  /\ out' = SocketTo(status, channels', c, "leave-room", RoomChannel(r), "user-left", r, 0)
            (+) SocketEmit(status, c, "leave-room", "room-left", r, 0)
  /\ res' = NoRes
  /\ UNCHANGED <<status, user, members, messages, chatUpdatedAt, now, tasks>>
  /\ UNCHANGED <<requests, chats>>

LeaveRoom(c, r) ==
  /\ Idle
  /\ status[c] = "connected"
  /\ IF currentRoom[c] = r
     THEN /\ channels' = Leave(channels, c, RoomChannel(r))
          /\ currentRoom' = [currentRoom EXCEPT ![c] = None]
          /\ out' = SocketTo(status, channels', c, "leave-room", RoomChannel(r), "user-left", r, 0)
                    (+) SocketEmit(status, c, "leave-room", "room-left", r, 0)
     ELSE /\ out' = EmptyBag
          /\ UNCHANGED <<channels, currentRoom>>
  /\ res' = NoRes
  /\ UNCHANGED <<status, user, members, messages, chatUpdatedAt, now, tasks>>
  /\ UNCHANGED <<requests, chats>>

----------------------------------------------------------------------------
\* send-message

\* variant: a connection that is in the room's channel is taken to be a
\* member without a lookup
SendMessageStartCached(c, r, content) ==
  /\ Idle
  /\ status[c] = "connected"
  /\ IF IsBlank(content)
     THEN /\ out' = SocketEmit(status, c, "send-message", "error",
                               "Message content is required", 0)
          /\ UNCHANGED tasks
     ELSE IF ~RoomExists(r)
     THEN /\ out' = SocketEmit(status, c, "send-message", "error", "Room not found", 0)
          /\ UNCHANGED tasks
     ELSE /\ CanSpawn /\ CanSend
          /\ out' = EmptyBag
          /\ tasks' = Spawn(Task(c, "send-message", "member", r, content,
                                 IsMember(r, user[c]) \/ c \in channels[RoomChannel(r)],
                                 0))
  /\ res' = NoRes
  /\ UNCHANGED <<status, user, currentRoom, channels, members, messages,
                 chatUpdatedAt, now>>
  /\ UNCHANGED <<requests, chats>>

SendMessageStart(c, r, content) ==
  /\ Idle
  /\ status[c] = "connected"
  /\ IF IsBlank(content)
     THEN /\ out' = SocketEmit(status, c, "send-message", "error",
                               "Message content is required", 0)
          /\ UNCHANGED tasks
     ELSE IF ~RoomExists(r)
     THEN /\ out' = SocketEmit(status, c, "send-message", "error", "Room not found", 0)
          /\ UNCHANGED tasks
     ELSE /\ CanSpawn /\ CanSend
          /\ out' = EmptyBag
          /\ tasks' = Spawn(Task(c, "send-message", "member", r, content,
                                 IsMember(r, user[c]), 0))
  /\ res' = NoRes
  /\ UNCHANGED <<status, user, currentRoom, channels, members, messages,
                 chatUpdatedAt, now>>
  /\ UNCHANGED <<requests, chats>>

\* variant: the member row is read again when the message is written
SendMessageAfterMemberRecheck(t) ==
  /\ Idle
  /\ BagIn(t, tasks) /\ t.kind = "send-message" /\ t.pc = "member"
  /\ LET c == t.conn
         r == t.target
     IN IF (~t.found \/ ~IsMember(r, user[c])) /\ ~IsOwner(r, user[c])
        THEN /\ out' = SocketEmit(status, c, "send-message", "error",
                         "You must be a member of this pod to send messages", 0)
             /\ tasks' = Finish(t)
             /\ UNCHANGED <<messages, now>>
        ELSE /\ \E at \in Clock :
                  /\ messages' = Append(messages,
                                   NewMessage(r, None, user[c], Trim(t.content), at))
                  /\ now' = at
             /\ tasks' = Advance(t, [t EXCEPT !.pc = "created", !.content = <<>>,
                                              !.found = TRUE,
                                              !.msg = Len(messages) + 1])
             /\ out' = EmptyBag
  /\ res' = NoRes
  /\ UNCHANGED <<status, user, currentRoom, channels, members, chatUpdatedAt>>
  /\ UNCHANGED <<requests, chats>>

SendMessageAfterMember(t) ==
  /\ Idle
  /\ BagIn(t, tasks) /\ t.kind = "send-message" /\ t.pc = "member"
  /\ LET c == t.conn
         r == t.target
     IN IF ~t.found /\ ~IsOwner(r, user[c])
        THEN /\ out' = SocketEmit(status, c, "send-message", "error",
                         "You must be a member of this pod to send messages", 0)
             /\ tasks' = Finish(t)
             /\ UNCHANGED <<messages, now>>
        ELSE /\ \E at \in Clock :
                  /\ messages' = Append(messages,
                                   NewMessage(r, None, user[c], Trim(t.content), at))
                  /\ now' = at
             /\ tasks' = Advance(t, [t EXCEPT !.pc = "created", !.content = <<>>,
                                              !.found = TRUE,
                                              !.msg = Len(messages) + 1])
             /\ out' = EmptyBag
  /\ res' = NoRes
  /\ UNCHANGED <<status, user, currentRoom, channels, members, chatUpdatedAt>>
  /\ UNCHANGED <<requests, chats>>

\* variant: the broadcast is skipped when the sender has disconnected
SendMessageAfterCreateIfConnected(t) ==
  /\ Idle
  /\ BagIn(t, tasks) /\ t.kind = "send-message" /\ t.pc = "created"
  /\ out' = IF status[t.conn] = "connected"
            THEN IoTo(status, channels, t.conn, "send-message", RoomChannel(t.target),
                      "new-message", t.target, t.msg)
            ELSE EmptyBag
  /\ tasks' = Finish(t)
  /\ res' = NoRes
  /\ UNCHANGED <<status, user, currentRoom, channels, members, messages,
                 chatUpdatedAt, now>>
  /\ UNCHANGED <<requests, chats>>

SendMessageAfterCreate(t) ==
  /\ Idle
  /\ BagIn(t, tasks) /\ t.kind = "send-message" /\ t.pc = "created"
  /\ out' = IoTo(status, channels, t.conn, "send-message", RoomChannel(t.target), "new-message",
                 t.target, t.msg)
  /\ tasks' = Finish(t)
  /\ res' = NoRes
  /\ UNCHANGED <<status, user, currentRoom, channels, members, messages,
                 chatUpdatedAt, now>>
  /\ UNCHANGED <<requests, chats>>

----------------------------------------------------------------------------
\* typing-start, typing-stop

\* variant: the indicator is not gated by the active room
TypingUngated(c, r, kind, ev) ==
  /\ Idle
  /\ status[c] = "connected"
  /\ out' = SocketTo(status, channels, c, kind, RoomChannel(r), ev, r, 0)
  /\ res' = NoRes
  /\ UNCHANGED <<status, user, currentRoom, channels, members, messages,
                 chatUpdatedAt, now, tasks>>
  /\ UNCHANGED <<requests, chats>>

Typing(c, r, kind, ev) ==
  /\ Idle
  /\ status[c] = "connected"
  /\ out' = IF currentRoom[c] = r
            THEN SocketTo(status, channels, c, kind, RoomChannel(r), ev, r, 0)
            ELSE EmptyBag
  /\ res' = NoRes
  /\ UNCHANGED <<status, user, currentRoom, channels, members, messages,
                 chatUpdatedAt, now, tasks>>
  /\ UNCHANGED <<requests, chats>>

TypingStart(c, r) == Typing(c, r, "typing-start", "user-typing")

TypingStop(c, r) == Typing(c, r, "typing-stop", "user-stopped-typing")

----------------------------------------------------------------------------
\* join-chat, leave-chat

JoinChatStart(c, k) ==
  /\ Idle
  /\ status[c] = "connected"
  /\ CanSpawn
  /\ tasks' = Spawn(Task(c, "join-chat", "participant", k, <<>>,
                         IsParticipant(k, user[c]), 0))
  /\ out' = EmptyBag
  /\ res' = NoRes
  /\ UNCHANGED <<status, user, currentRoom, channels, members, messages,
                 chatUpdatedAt, now>>
  /\ UNCHANGED <<requests, chats>>

JoinChatAfterParticipant(t) ==
  /\ Idle
  /\ BagIn(t, tasks) /\ t.kind = "join-chat" /\ t.pc = "participant"
  /\ IF ~t.found
     THEN /\ out' = SocketEmit(status, t.conn, "join-chat", "error",
                               "You are not a participant of this chat", 0)
          /\ UNCHANGED channels
     ELSE /\ channels' = Join(channels, t.conn, ChatChannel(t.target))
          /\ out' = SocketEmit(status, t.conn, "join-chat", "chat-joined", t.target, 0)
  /\ tasks' = Finish(t)
  /\ res' = NoRes
  /\ UNCHANGED <<status, user, currentRoom, members, messages, chatUpdatedAt, now>>
  /\ UNCHANGED <<requests, chats>>

\* variant: leaving a chat also leaves the active room
LeaveChatAndRoom(c, k) ==
  /\ Idle
  /\ status[c] = "connected"
  /\ channels' = LET chs == Leave(channels, c, ChatChannel(k))
                 IN IF currentRoom[c] = None THEN chs
                    ELSE Leave(chs, c, RoomChannel(currentRoom[c]))
  /\ currentRoom' = [currentRoom EXCEPT ![c] = None]
  /\ out' = EmptyBag
  /\ res' = NoRes
  /\ UNCHANGED <<status, user, members, messages, chatUpdatedAt, now, tasks>>
  /\ UNCHANGED <<requests, chats>>

LeaveChat(c, k) ==
  /\ Idle
  /\ status[c] = "connected"
  /\ channels' = Leave(channels, c, ChatChannel(k))
  /\ out' = EmptyBag
  /\ res' = NoRes
  /\ UNCHANGED <<status, user, currentRoom, members, messages, chatUpdatedAt,
                 now, tasks>>
  /\ UNCHANGED <<requests, chats>>

----------------------------------------------------------------------------
\* send-dm

SendDmStart(c, k, content) ==
  /\ Idle
  /\ status[c] = "connected"
  /\ IF IsBlank(content)
     THEN /\ out' = SocketEmit(status, c, "send-dm", "error", "Message content is required", 0)
          /\ UNCHANGED tasks
     ELSE /\ CanSpawn /\ CanSend
          /\ out' = EmptyBag
          /\ tasks' = Spawn(Task(c, "send-dm", "participant", k, content,
                                 IsParticipant(k, user[c]), 0))
  /\ res' = NoRes
  /\ UNCHANGED <<status, user, currentRoom, channels, members, messages,
                 chatUpdatedAt, now>>
  /\ UNCHANGED <<requests, chats>>

SendDmAfterParticipant(t) ==
  /\ Idle
  /\ BagIn(t, tasks) /\ t.kind = "send-dm" /\ t.pc = "participant"
  /\ IF ~t.found
     THEN /\ out' = SocketEmit(status, t.conn, "send-dm", "error",
                               "You are not a participant of this chat", 0)
          /\ tasks' = Finish(t)
          /\ UNCHANGED <<messages, now>>
     ELSE /\ \E at \in Clock :
               /\ messages' = Append(messages,
                                NewMessage(None, t.target, user[t.conn],
                                           Trim(t.content), at))
               /\ now' = at
          /\ tasks' = Advance(t, [t EXCEPT !.pc = "created", !.content = <<>>,
                                           !.msg = Len(messages) + 1])
          /\ out' = EmptyBag
  /\ res' = NoRes
  /\ UNCHANGED <<status, user, currentRoom, channels, members, chatUpdatedAt>>
  /\ UNCHANGED <<requests, chats>>

\* variant: the chat's updatedAt is not written
SendDmAfterCreateNoUpdate(t) ==
  /\ Idle
  /\ BagIn(t, tasks) /\ t.kind = "send-dm" /\ t.pc = "created"
  /\ tasks' = Advance(t, [t EXCEPT !.pc = "updated"])
  /\ out' = EmptyBag
  /\ res' = NoRes
  /\ UNCHANGED <<status, user, currentRoom, channels, members, messages,
                 chatUpdatedAt, now>>
  /\ UNCHANGED <<requests, chats>>

\* prisma.chat.update({ data: { updatedAt: new Date() } }): the store applies
\* the write at `at`; d is what new Date() read when the handler resumed
\* after its insert
SendDmAfterCreate(t) ==
  /\ Idle
  /\ BagIn(t, tasks) /\ t.kind = "send-dm" /\ t.pc = "created"
  /\ \E at \in Clock :
       /\ \E d \in messages[t.msg].createdAt..at :
            chatUpdatedAt' = [chatUpdatedAt EXCEPT ![t.target] = d]
       /\ now' = at
  /\ tasks' = Advance(t, [t EXCEPT !.pc = "updated"])
  /\ out' = EmptyBag
  /\ res' = NoRes
  /\ UNCHANGED <<status, user, currentRoom, channels, members, messages>>
  /\ UNCHANGED <<requests, chats>>

SendDmAfterUpdate(t) ==
  /\ Idle
  /\ BagIn(t, tasks) /\ t.kind = "send-dm" /\ t.pc = "updated"
  /\ out' = IoTo(status, channels, t.conn, "send-dm", ChatChannel(t.target), "new-dm",
                 t.target, t.msg)
  /\ tasks' = Finish(t)
  /\ res' = NoRes
  /\ UNCHANGED <<status, user, currentRoom, channels, members, messages,
                 chatUpdatedAt, now>>
  /\ UNCHANGED <<requests, chats>>

----------------------------------------------------------------------------
\* dm-typing-start, dm-typing-stop

DmTyping(c, k, kind, ev) ==
  /\ Idle
  /\ status[c] = "connected"
  /\ out' = SocketTo(status, channels, c, kind, ChatChannel(k), ev, k, 0)
  /\ res' = NoRes
  /\ UNCHANGED <<status, user, currentRoom, channels, members, messages,
                 chatUpdatedAt, now, tasks>>
  /\ UNCHANGED <<requests, chats>>

DmTypingStart(c, k) == DmTyping(c, k, "dm-typing-start", "dm-user-typing")

DmTypingStop(c, k) == DmTyping(c, k, "dm-typing-stop", "dm-user-stopped-typing")

----------------------------------------------------------------------------
\* join-notifications

JoinNotifications(c) ==
  /\ Idle
  /\ status[c] = "connected"
  /\ channels' = Join(channels, c, UserChannel(user[c]))
  /\ out' = SocketEmit(status, c, "join-notifications", "notifications-joined", None, 0)
  /\ res' = NoRes
  /\ UNCHANGED <<status, user, currentRoom, members, messages, chatUpdatedAt,
                 now, tasks>>
  /\ UNCHANGED <<requests, chats>>

----------------------------------------------------------------------------
\* disconnect: the transport leaves every channel, then the listener runs

\* variant: user-left goes to every room channel the socket was in
DisconnectEveryRoom(c) ==
  /\ Idle
  /\ status[c] = "connected"
  /\ status' = [status EXCEPT ![c] = "disconnected"]
  /\ channels' = LeaveAll(channels, c)
  /\ out' = (IF c \in channels[RoomChannel("r1")]
             THEN SocketTo(status', channels', c, "disconnect", RoomChannel("r1"),
                           "user-left", "r1", 0)
             ELSE EmptyBag)
            (+) (IF c \in channels[RoomChannel("r2")]
                 THEN SocketTo(status', channels', c, "disconnect", RoomChannel("r2"),
                               "user-left", "r2", 0)
                 ELSE EmptyBag)
  /\ res' = NoRes
  /\ UNCHANGED <<user, currentRoom, members, messages, chatUpdatedAt, now, tasks>>
  /\ UNCHANGED <<requests, chats>>

Disconnect(c) ==
  /\ Idle
  /\ status[c] = "connected"
  /\ status' = [status EXCEPT ![c] = "disconnected"]
  /\ channels' = LeaveAll(channels, c)
  /\ out' = IF currentRoom[c] # None
            THEN SocketTo(status', channels', c, "disconnect", RoomChannel(currentRoom[c]),
                          "user-left", currentRoom[c], 0)
            ELSE EmptyBag
  /\ res' = NoRes
  /\ UNCHANGED <<user, currentRoom, members, messages, chatUpdatedAt, now, tasks>>
  /\ UNCHANGED <<requests, chats>>

----------------------------------------------------------------------------
\* catch blocks: an awaited lookup or write of the store rejects.  A write
\* that rejects has not been applied.

\* variant: the failure is reported to every connected socket
CatchToAll(t, kind, message) ==
  /\ Idle
  /\ BagIn(t, tasks) /\ t.kind = kind
  /\ out' = SetToBag({Event(d, "error", None, t.conn, kind, message, 0) :
                        d \in {x \in Conns : status[x] = "connected"}})
  /\ tasks' = Finish(t)
  /\ res' = NoRes
  /\ UNCHANGED <<status, user, currentRoom, channels, members, messages,
                 chatUpdatedAt, now>>
  /\ UNCHANGED <<requests, chats>>

\* catch (error) { socket.emit('error', { message }) }
Catch(t, kind, message) ==
  /\ Idle
  /\ BagIn(t, tasks) /\ t.kind = kind
  /\ out' = SocketEmit(status, t.conn, kind, "error", message, 0)
  /\ tasks' = Finish(t)
  /\ res' = NoRes
  /\ UNCHANGED <<status, user, currentRoom, channels, members, messages,
                 chatUpdatedAt, now>>
  /\ UNCHANGED <<requests, chats>>

\* variant: a join that fails leaves the room the connection was in
JoinRoomFailsAndLeaves(t) ==
  /\ Idle
  /\ BagIn(t, tasks) /\ t.kind = "join-room" /\ t.pc = "member"
  /\ out' = SocketEmit(status, t.conn, "join-room", "error", "Failed to join room", 0)
  /\ currentRoom' = [currentRoom EXCEPT ![t.conn] = None]
  /\ channels' = IF currentRoom[t.conn] = None THEN channels
                 ELSE Leave(channels, t.conn, RoomChannel(currentRoom[t.conn]))
  /\ tasks' = Finish(t)
  /\ res' = NoRes
  /\ UNCHANGED <<status, user, members, messages, chatUpdatedAt, now>>
  /\ UNCHANGED <<requests, chats>>

\* the room or member lookup rejects
JoinRoomFails(t) == t.pc = "member" /\ Catch(t, "join-room", "Failed to join room")

\* the room or member lookup rejects, or prisma.message.create does
SendMessageFails(t) ==
  t.pc = "member" /\ Catch(t, "send-message", "Failed to send message")

\* the participant lookup rejects
JoinChatFails(t) == t.pc = "participant" /\ Catch(t, "join-chat", "Failed to join chat")

\* the participant lookup or prisma.message.create rejects (pc participant),
\* or prisma.chat.update rejects after the message was inserted (pc created)
SendDmFails(t) ==
  /\ t.pc \in {"participant", "created"}
  /\ Catch(t, "send-dm", "Failed to send message")

----------------------------------------------------------------------------
\* Pod membership routes of posts.ts: their effect on the member rows

PodJoin(u, p) ==
  /\ Idle
  /\ IF <<p, u>> \in members
     THEN UNCHANGED members
     ELSE members' = members \cup {<<p, u>>}
  /\ UNCHANGED <<status, user, currentRoom, channels, messages, chatUpdatedAt,
                 now, tasks, out, res>>
  /\ UNCHANGED <<requests, chats>>

PodLeave(u, p) ==
  /\ Idle
  /\ IF <<p, u>> \notin members
     THEN UNCHANGED members
     ELSE members' = members \ {<<p, u>>}
  /\ UNCHANGED <<status, user, currentRoom, channels, messages, chatUpdatedAt,
                 now, tasks, out, res>>
  /\ UNCHANGED <<requests, chats>>

RemoveMember(owner, p, u) ==
  /\ Idle
  /\ IF PodOwner[p] # owner
     THEN UNCHANGED members
     ELSE IF <<p, u>> \notin members
     THEN UNCHANGED members
     ELSE members' = members \ {<<p, u>>}
  /\ UNCHANGED <<status, user, currentRoom, channels, messages, chatUpdatedAt,
                 now, tasks, out, res>>
  /\ UNCHANGED <<requests, chats>>

----------------------------------------------------------------------------
----------------------------------------------------------------------------
\* GET /:roomId/messages (rooms.ts): the history of a room

DefaultLimit == 50

\* the page sizes asked for: parseInt(limit), or the default when absent
Limits == (0..MaxLimit) \cup {DefaultLimit}

\* `before`: 0 when absent, else a message id; ids above the table name no message
Cursors == 0..(MaxHist + 1)

Min(a, b) == IF a < b THEN a ELSE b

\* variant: the rows stay newest-first
ReverseNot(q) == q

Reverse(q) == [i \in 1..Len(q) |-> q[Len(q) + 1 - i]]

\* take: n
Take(q, n) == SubSeq(q, 1, Min(n, Len(q)))

\* prisma.message.findUnique({ where: { id: before } })
FindMessage(cur) == IF cur \in 1..Len(messages) THEN {messages[cur]} ELSE {}

\* variant: a cursor that names no message matches nothing
MatchesCursorRequired(m, r, cur) ==
  /\ m.roomId = r
  /\ cur # 0 => \E b \in FindMessage(cur) : m.createdAt < b.createdAt

\* variant: the where clause does not name the room
MatchesAnyRoom(m, r, cur) ==
  \A b \in FindMessage(cur) : m.createdAt < b.createdAt

\* whereClause: roomId, and createdAt lt the cursor message's when it exists
Matches(m, r, cur) ==
  /\ m.roomId = r
  /\ \A b \in FindMessage(cur) : m.createdAt < b.createdAt

\* orderBy createdAt desc: the store may return rows of equal createdAt in
\* any order
DescOrders(S) ==
  {q \in [1..Cardinality(S) -> S] :
     /\ \A i, j \in 1..Cardinality(S) : i # j => q[i] # q[j]
     /\ \A i, j \in 1..Cardinality(S) :
          i < j => messages[q[i]].createdAt >= messages[q[j]].createdAt}

\* prisma.message.findMany({ where, orderBy, take }) and messages.reverse():
\* the pages the route may answer with, as sequences of message ids
Pages(r, lim, cur) ==
  {Reverse(Take(q, lim)) :
     q \in DescOrders({i \in 1..Len(messages) : Matches(messages[i], r, cur)})}

GetMessages(u, r, lim, cur) ==
  /\ Idle
  /\ IF ~RoomExists(r)
     THEN res' = Response(404, <<>>, u, r, lim, cur)
     ELSE IF ~IsMember(r, u) /\ ~IsOwner(r, u)
     THEN res' = Response(403, <<>>, u, r, lim, cur)
     ELSE \E page \in Pages(r, lim, cur) :
            res' = Response(200, page, u, r, lim, cur)
  /\ UNCHANGED <<status, user, currentRoom, channels, members, messages,
                 chatUpdatedAt, now, tasks, out>>
  /\ UNCHANGED <<requests, chats>>

----------------------------------------------------------------------------
\* Message requests (messageRequests.ts).  The task of a route holds the
\* calling user in `conn` and the request id in `target`.  Chats created
\* here are not addressed by the socket events of this model.

\* the row (senderId, receiverId)
RequestRow(s, r) == CHOOSE q \in RequestRows : RequestSender[q] = s /\ RequestReceiver[q] = r

\* existingChats.find: a chat of exactly these two users
ChatExists(s, r) ==
  \/ \E k \in Chats : ChatParticipants[k] = {s, r}
  \/ \E i \in 1..Len(chats) : chats[i].participants = {s, r}

\* POST /: validation, self check and receiver lookup, then the lookup of an
\* existing request
CreateRequestStart(s, r, content) ==
  /\ Idle
  /\ IF content = <<>>
     THEN /\ res' = Response(400, <<>>, s, None, 0, 0)
          /\ UNCHANGED tasks
     ELSE IF r = s
     THEN /\ res' = Response(400, <<>>, s, None, 0, 0)
          /\ UNCHANGED tasks
     ELSE IF r \notin Users
     THEN /\ res' = Response(404, <<>>, s, None, 0, 0)
          /\ UNCHANGED tasks
     ELSE /\ CanSpawn
          /\ res' = NoRes
          /\ tasks' = Spawn(Task(s, "create-request", "request", RequestRow(s, r),
                                 content,
                                 requests[RequestRow(s, r)].status # "none", 0))
  /\ UNCHANGED <<status, user, currentRoom, channels, members, messages,
                 chatUpdatedAt, now, out, requests, chats>>

\* 'Message request already sent', or the lookup of an existing chat
CreateRequestAfterRequest(t) ==
  /\ Idle
  /\ BagIn(t, tasks) /\ t.kind = "create-request" /\ t.pc = "request"
  /\ IF t.found
     THEN /\ res' = Response(400, <<>>, t.conn, t.target, 0, 0)
          /\ tasks' = Finish(t)
     ELSE /\ res' = NoRes
          /\ tasks' = Advance(t, [t EXCEPT !.pc = "chats",
                                   !.found = ChatExists(RequestSender[t.target],
                                                        RequestReceiver[t.target])])
  /\ UNCHANGED <<status, user, currentRoom, channels, members, messages,
                 chatUpdatedAt, now, out, requests, chats>>

\* 'Chat already exists with this user', or prisma.messageRequest.create;
\* the unique index refuses a second row of the same sender and receiver
CreateRequestAfterChats(t) ==
  /\ Idle
  /\ BagIn(t, tasks) /\ t.kind = "create-request" /\ t.pc = "chats"
  /\ IF t.found
     THEN /\ res' = Response(400, <<>>, t.conn, t.target, 0, 0)
          /\ tasks' = Finish(t)
          /\ UNCHANGED requests
     ELSE IF requests[t.target].status # "none"
     THEN /\ res' = Response(500, <<>>, t.conn, t.target, 0, 0)
          /\ tasks' = Finish(t)
          /\ UNCHANGED requests
     ELSE /\ requests' = [requests EXCEPT ![t.target] =
                            [status |-> "PENDING", initialMessage |-> t.content]]
          /\ res' = NoRes
          /\ tasks' = Advance(t, [t EXCEPT !.pc = "created"])
  /\ UNCHANGED <<status, user, currentRoom, channels, members, messages,
                 chatUpdatedAt, now, out, chats>>

\* res.status(201)
CreateRequestAfterCreate(t) ==
  /\ Idle
  /\ BagIn(t, tasks) /\ t.kind = "create-request" /\ t.pc = "created"
  /\ res' = Response(201, <<>>, t.conn, t.target, 0, 0)
  /\ tasks' = Finish(t)
  /\ UNCHANGED <<status, user, currentRoom, channels, members, messages,
                 chatUpdatedAt, now, out, requests, chats>>

\* the answer of accept and reject to the row that findUnique returned:
\* 404, 403, 400, or 0 when the request may be processed
RequestCheck(u, q) ==
  IF q \notin RequestRows THEN 404
  ELSE IF requests[q].status = "none" THEN 404
  ELSE IF RequestReceiver[q] # u THEN 403
  ELSE IF requests[q].status # "PENDING" THEN 400
  ELSE 0

\* POST /:requestId/accept and /reject up to prisma.messageRequest.findUnique:
\* `msg` holds the answer to the row as read, `content` its initialMessage
RespondStart(u, q, kind) ==
  /\ Idle
  /\ CanSpawn
  /\ tasks' = Spawn(Task(u, kind, "request", q,
                         IF q \in RequestRows THEN requests[q].initialMessage ELSE <<>>,
                         RequestCheck(u, q) = 0, RequestCheck(u, q)))
  /\ res' = NoRes
  /\ UNCHANGED <<status, user, currentRoom, channels, members, messages,
                 chatUpdatedAt, now, out, requests, chats>>

AcceptStart(u, q) == RespondStart(u, q, "accept")

RejectStart(u, q) == RespondStart(u, q, "reject")

\* the checks on the row as read, then prisma.messageRequest.update
RespondAfterFind(t, kind, to) ==
  /\ Idle
  /\ BagIn(t, tasks) /\ t.kind = kind /\ t.pc = "request"
  /\ IF ~t.found
     THEN /\ res' = Response(t.msg, <<>>, t.conn, t.target, 0, 0)
          /\ tasks' = Finish(t)
          /\ UNCHANGED requests
     ELSE /\ requests' = [requests EXCEPT ![t.target].status = to]
          /\ res' = NoRes
          /\ tasks' = Advance(t, [t EXCEPT !.pc = "updated"])
  /\ UNCHANGED <<status, user, currentRoom, channels, members, messages,
                 chatUpdatedAt, now, out, chats>>

AcceptAfterFind(t) == RespondAfterFind(t, "accept", "ACCEPTED")

RejectAfterFind(t) == RespondAfterFind(t, "reject", "REJECTED")

\* prisma.chat.create with the two participant rows
AcceptAfterUpdate(t) ==
  /\ Idle
  /\ BagIn(t, tasks) /\ t.kind = "accept" /\ t.pc = "updated"
  /\ Len(chats) < MaxChats
  /\ chats' = Append(chats, [id |-> CreatedChatIds[Len(chats) + 1],
                             participants |-> {RequestSender[t.target],
                                               RequestReceiver[t.target]},
                             request |-> t.target])
  /\ tasks' = Advance(t, [t EXCEPT !.pc = "chat", !.msg = Len(chats) + 1])
  /\ res' = NoRes
  /\ UNCHANGED <<status, user, currentRoom, channels, members, messages,
                 chatUpdatedAt, now, out, requests>>

\* prisma.message.create({ content: request.initialMessage, chatId, senderId })
AcceptAfterChat(t) ==
  /\ Idle
  /\ BagIn(t, tasks) /\ t.kind = "accept" /\ t.pc = "chat"
  /\ \E at \in Clock :
       /\ messages' = Append(messages,
                        NewMessage(None, chats[t.msg].id, RequestSender[t.target],
                                   t.content, at))
       /\ now' = at
  /\ tasks' = Advance(t, [t EXCEPT !.pc = "message"])
  /\ res' = NoRes
  /\ UNCHANGED <<status, user, currentRoom, channels, members, chatUpdatedAt,
                 out, requests, chats>>

\* res.json({ request, chatId })
AcceptAfterMessage(t) ==
  /\ Idle
  /\ BagIn(t, tasks) /\ t.kind = "accept" /\ t.pc = "message"
  /\ res' = Response(200, <<>>, t.conn, t.target, 0, 0)
  /\ tasks' = Finish(t)
  /\ UNCHANGED <<status, user, currentRoom, channels, members, messages,
                 chatUpdatedAt, now, out, requests, chats>>

\* res.json({ request })
RejectAfterUpdate(t) ==
  /\ Idle
  /\ BagIn(t, tasks) /\ t.kind = "reject" /\ t.pc = "updated"
  /\ res' = Response(200, <<>>, t.conn, t.target, 0, 0)
  /\ tasks' = Finish(t)
  /\ UNCHANGED <<status, user, currentRoom, channels, members, messages,
                 chatUpdatedAt, now, out, requests, chats>>

----------------------------------------------------------------------------
\* the whole gateway
Next ==
  \/ \E c \in Conns : \E tok \in HandshakeTokens(c) : Connect(c, tok)
  \/ \E c \in Conns, r \in RoomIds : JoinRoomStart(c, r)
  \/ \E t \in BagToSet(tasks) : JoinRoomAfterMember(t)
  \/ \E c \in Conns, r \in RoomIds : LeaveRoom(c, r)
  \/ \E c \in Conns, r \in RoomIds, content \in Contents : SendMessageStart(c, r, content)
  \/ \E t \in BagToSet(tasks) : SendMessageAfterMember(t)
  \/ \E t \in BagToSet(tasks) : SendMessageAfterCreate(t)
  \/ \E c \in Conns, r \in RoomIds : TypingStart(c, r)
  \/ \E c \in Conns, r \in RoomIds : TypingStop(c, r)
  \/ \E c \in Conns, k \in ChatIds : JoinChatStart(c, k)
  \/ \E t \in BagToSet(tasks) : JoinChatAfterParticipant(t)
  \/ \E c \in Conns, k \in ChatIds : LeaveChat(c, k)
  \/ \E c \in Conns, k \in ChatIds, content \in Contents : SendDmStart(c, k, content)
  \/ \E t \in BagToSet(tasks) : SendDmAfterParticipant(t)
  \/ \E t \in BagToSet(tasks) : SendDmAfterCreate(t)
  \/ \E t \in BagToSet(tasks) : SendDmAfterUpdate(t)
  \/ \E c \in Conns, k \in ChatIds : DmTypingStart(c, k)
  \/ \E c \in Conns, k \in ChatIds : DmTypingStop(c, k)
  \/ \E c \in Conns : JoinNotifications(c)
  \/ \E c \in Conns : Disconnect(c)
  \/ \E u \in Joiners, p \in Pods : PodJoin(u, p)
  \/ \E u \in Joiners, p \in Pods : PodLeave(u, p)
  \/ \E o \in HttpUsers, p \in Pods, u \in Joiners : RemoveMember(o, p, u)
  \/ \E u \in HttpUsers, r \in RoomIds, lim \in Limits, cur \in Cursors :
       GetMessages(u, r, lim, cur)
  \/ \E u \in Requesters, r \in Requesters \cup {"u0"}, content \in RequestContents :
       CreateRequestStart(u, r, content)
  \/ \E t \in BagToSet(tasks) : CreateRequestAfterRequest(t)
  \/ \E t \in BagToSet(tasks) : CreateRequestAfterChats(t)
  \/ \E t \in BagToSet(tasks) : CreateRequestAfterCreate(t)
  \/ \E u \in Requesters, q \in RequestIds : AcceptStart(u, q)
  \/ \E t \in BagToSet(tasks) : AcceptAfterFind(t)
  \/ \E t \in BagToSet(tasks) : AcceptAfterUpdate(t)
  \/ \E t \in BagToSet(tasks) : AcceptAfterChat(t)
  \/ \E t \in BagToSet(tasks) : AcceptAfterMessage(t)
  \/ \E u \in Requesters, q \in RequestIds : RejectStart(u, q)
  \/ \E t \in BagToSet(tasks) : RejectAfterFind(t)
  \/ \E t \in BagToSet(tasks) : RejectAfterUpdate(t)
  \/ \E t \in BagToSet(tasks) : JoinRoomFails(t)
  \/ \E t \in BagToSet(tasks) : SendMessageFails(t)
  \/ \E t \in BagToSet(tasks) : JoinChatFails(t)
  \/ \E t \in BagToSet(tasks) : SendDmFails(t)
  \/ Deliver

Spec == Init /\ [][Next]_vars

\* the room session manager and the room message pipeline, with the pod
\* membership routes and disconnects
NextRoom ==
  \/ \E c \in Conns : \E tok \in HandshakeTokens(c) : Connect(c, tok)
  \/ \E c \in Conns, r \in RoomIds : JoinRoomStart(c, r)
  \/ \E t \in BagToSet(tasks) : JoinRoomAfterMember(t)
  \/ \E c \in Conns, r \in RoomIds : LeaveRoom(c, r)
  \/ \E c \in Conns, r \in RoomIds, content \in Contents : SendMessageStart(c, r, content)
  \/ \E t \in BagToSet(tasks) : SendMessageAfterMember(t)
  \/ \E t \in BagToSet(tasks) : SendMessageAfterCreate(t)
  \/ \E c \in Conns : Disconnect(c)
  \/ \E u \in Joiners, p \in Pods : PodJoin(u, p)
  \/ \E u \in Joiners, p \in Pods : PodLeave(u, p)
  \/ \E o \in HttpUsers, p \in Pods, u \in Joiners : RemoveMember(o, p, u)
  \/ Deliver

SpecRoom == Init /\ [][NextRoom]_vars

\* the two message pipelines with the joins and leaves of their channels
NextSend ==
  \/ \E c \in Conns : \E tok \in HandshakeTokens(c) : Connect(c, tok)
  \/ \E c \in Conns, r \in RoomIds : JoinRoomStart(c, r)
  \/ \E t \in BagToSet(tasks) : JoinRoomAfterMember(t)
  \/ \E c \in Conns, r \in RoomIds : LeaveRoom(c, r)
  \/ \E c \in Conns, r \in RoomIds, content \in Contents : SendMessageStart(c, r, content)
  \/ \E t \in BagToSet(tasks) : SendMessageAfterMember(t)
  \/ \E t \in BagToSet(tasks) : SendMessageAfterCreate(t)
  \/ \E c \in Conns, k \in ChatIds : JoinChatStart(c, k)
  \/ \E t \in BagToSet(tasks) : JoinChatAfterParticipant(t)
  \/ \E c \in Conns, k \in ChatIds : LeaveChat(c, k)
  \/ \E c \in Conns, k \in ChatIds, content \in Contents : SendDmStart(c, k, content)
  \/ \E t \in BagToSet(tasks) : SendDmAfterParticipant(t)
  \/ \E t \in BagToSet(tasks) : SendDmAfterCreate(t)
  \/ \E t \in BagToSet(tasks) : SendDmAfterUpdate(t)
  \/ \E c \in Conns : Disconnect(c)
  \/ Deliver

SpecSend == Init /\ [][NextSend]_vars

\* the joins and the two message pipelines over a store whose lookups and
\* writes may reject; the clients address room r1, a missing room and both
\* chat ids
NextFail ==
  \/ \E c \in Conns : \E tok \in HandshakeTokens(c) : Connect(c, tok)
  \/ \E u \in Joiners, p \in Pods : PodJoin(u, p)
  \/ \E c \in Conns, r \in {"r1", "r0"} : JoinRoomStart(c, r)
  \/ \E t \in BagToSet(tasks) : JoinRoomAfterMember(t)
  \/ \E c \in Conns, r \in {"r1", "r0"}, content \in Contents :
       SendMessageStart(c, r, content)
  \/ \E t \in BagToSet(tasks) : SendMessageAfterMember(t)
  \/ \E t \in BagToSet(tasks) : SendMessageAfterCreate(t)
  \/ \E c \in Conns, k \in ChatIds : JoinChatStart(c, k)
  \/ \E t \in BagToSet(tasks) : JoinChatAfterParticipant(t)
  \/ \E c \in Conns, k \in ChatIds, content \in Contents : SendDmStart(c, k, content)
  \/ \E t \in BagToSet(tasks) : SendDmAfterParticipant(t)
  \/ \E t \in BagToSet(tasks) : SendDmAfterCreate(t)
  \/ \E t \in BagToSet(tasks) : SendDmAfterUpdate(t)
  \/ \E t \in BagToSet(tasks) : JoinRoomFails(t)
  \/ \E t \in BagToSet(tasks) : SendMessageFails(t)
  \/ \E t \in BagToSet(tasks) : JoinChatFails(t)
  \/ \E t \in BagToSet(tasks) : SendDmFails(t)
  \/ \E c \in Conns : Disconnect(c)
  \/ Deliver

SpecFail == Init /\ [][NextFail]_vars

\* room ids a client can send that spell the name of a notification channel
ChannelLikeIds == {UserChannel(u) : u \in HttpUsers}

\* presence: the handlers that join, leave and address channels without
\* writing messages, with pod joins
NextPresence ==
  \/ \E c \in Conns : \E tok \in HandshakeTokens(c) : Connect(c, tok)
  \/ \E c \in Conns, r \in RoomIds \cup ChannelLikeIds : JoinRoomStart(c, r)
  \/ \E t \in BagToSet(tasks) : JoinRoomAfterMember(t)
  \/ \E c \in Conns, r \in RoomIds \cup ChannelLikeIds : LeaveRoom(c, r)
  \/ \E c \in Conns, r \in RoomIds \cup ChannelLikeIds : TypingStart(c, r)
  \/ \E c \in Conns, r \in RoomIds \cup ChannelLikeIds : TypingStop(c, r)
  \/ \E c \in Conns, k \in ChatIds : JoinChatStart(c, k)
  \/ \E t \in BagToSet(tasks) : JoinChatAfterParticipant(t)
  \/ \E c \in Conns, k \in ChatIds : LeaveChat(c, k)
  \/ \E c \in Conns, k \in ChatIds : DmTypingStart(c, k)
  \/ \E c \in Conns, k \in ChatIds : DmTypingStop(c, k)
  \/ \E c \in Conns : JoinNotifications(c)
  \/ \E c \in Conns : Disconnect(c)
  \/ \E u \in Joiners, p \in Pods : PodJoin(u, p)
  \/ Deliver

SpecPresence == Init /\ [][NextPresence]_vars

\* the writers of the message table: the two send pipelines, driven by the
\* pod owner's connection, and the creation and acceptance of the requests
\* that u1 sends
NextWrite ==
  \/ \E tok \in HandshakeTokens("c1") : Connect("c1", tok)
  \/ \E r \in {"r1", "r0"}, content \in Contents : SendMessageStart("c1", r, content)
  \/ \E t \in BagToSet(tasks) : SendMessageAfterMember(t)
  \/ \E t \in BagToSet(tasks) : SendMessageAfterCreate(t)
  \/ \E k \in ChatIds, content \in Contents : SendDmStart("c1", k, content)
  \/ \E t \in BagToSet(tasks) : SendDmAfterParticipant(t)
  \/ \E t \in BagToSet(tasks) : SendDmAfterCreate(t)
  \/ \E t \in BagToSet(tasks) : SendDmAfterUpdate(t)
  \/ \E r \in Requesters \cup {"u0"}, content \in RequestContents :
       CreateRequestStart("u1", r, content)
  \/ \E t \in BagToSet(tasks) : CreateRequestAfterRequest(t)
  \/ \E t \in BagToSet(tasks) : CreateRequestAfterChats(t)
  \/ \E t \in BagToSet(tasks) : CreateRequestAfterCreate(t)
  \/ \E u \in Requesters, q \in {"q12", "q0"} : AcceptStart(u, q)
  \/ \E t \in BagToSet(tasks) : AcceptAfterFind(t)
  \/ \E t \in BagToSet(tasks) : AcceptAfterUpdate(t)
  \/ \E t \in BagToSet(tasks) : AcceptAfterChat(t)
  \/ \E t \in BagToSet(tasks) : AcceptAfterMessage(t)
  \/ Deliver

SpecWrite == Init /\ [][NextWrite]_vars

\* the message request routes: both users send requests to each other,
\* accept and reject them
NextRequests ==
  \/ \E u \in Requesters, r \in Requesters \cup {"u0"}, content \in RequestContents :
       CreateRequestStart(u, r, content)
  \/ \E t \in BagToSet(tasks) : CreateRequestAfterRequest(t)
  \/ \E t \in BagToSet(tasks) : CreateRequestAfterChats(t)
  \/ \E t \in BagToSet(tasks) : CreateRequestAfterCreate(t)
  \/ \E u \in Requesters, q \in RequestIds : AcceptStart(u, q)
  \/ \E t \in BagToSet(tasks) : AcceptAfterFind(t)
  \/ \E t \in BagToSet(tasks) : AcceptAfterUpdate(t)
  \/ \E t \in BagToSet(tasks) : AcceptAfterChat(t)
  \/ \E t \in BagToSet(tasks) : AcceptAfterMessage(t)
  \/ \E u \in Requesters, q \in RequestIds : RejectStart(u, q)
  \/ \E t \in BagToSet(tasks) : RejectAfterFind(t)
  \/ \E t \in BagToSet(tasks) : RejectAfterUpdate(t)
  \/ Deliver

SpecRequests == Init /\ [][NextRequests]_vars

\* a pending request, when MaxResponders accept and reject calls of its
\* receiver have been received back to back: every handler has read the row
\* with status PENDING and awaits
Responders == [1..MaxResponders -> {"accept", "reject"}]

RECURSIVE RespondTasks(_, _, _)
RespondTasks(q, f, n) ==
  IF n = 0 THEN EmptyBag
  ELSE RespondTasks(q, f, n - 1)
         (+) SetToBag({Task(RequestReceiver[q], f[n], "request", q, <<"a">>,
                            TRUE, 0)})

InitRespond ==
  /\ status = [c \in Conns |-> "new"]
  /\ user = [c \in Conns |-> None]
  /\ currentRoom = [c \in Conns |-> None]
  /\ channels = [ch \in ChannelNames |-> {}]
  /\ members = {}
  /\ messages = <<>>
  /\ chatUpdatedAt = [k \in Chats |-> 0]
  /\ now = 0
  /\ \E p \in RequestRows :
       /\ tasks \in {RespondTasks(p, f, MaxResponders) : f \in Responders}
       /\ requests = [q \in RequestRows |->
                        IF q = p
                        THEN [status |-> "PENDING", initialMessage |-> <<"a">>]
                        ELSE NoRequest]
  /\ out = EmptyBag
  /\ res = NoRes
  /\ chats = <<>>

\* the handlers run to their responses in any interleaving
NextRespond ==
  \/ \E t \in BagToSet(tasks) : AcceptAfterFind(t)
  \/ \E t \in BagToSet(tasks) : AcceptAfterUpdate(t)
  \/ \E t \in BagToSet(tasks) : AcceptAfterChat(t)
  \/ \E t \in BagToSet(tasks) : AcceptAfterMessage(t)
  \/ \E t \in BagToSet(tasks) : RejectAfterFind(t)
  \/ \E t \in BagToSet(tasks) : RejectAfterUpdate(t)
  \/ Deliver

SpecRespond == InitRespond /\ [][NextRespond]_vars

\* join-room handlers in flight.  The owner's connection c1 has sent
\* join-room(r1) and then join-room(r2); the member's connection c2 has sent
\* join-room(r1) and then leave-room(r1), which found another active room
\* (none) and did nothing.  The three join handlers await the member lookup.
\* The direct-message side of the gateway with one room and the notification
\* channel beside it.
NextChat ==
  \/ \E c \in Conns : \E tok \in HandshakeTokens(c) : Connect(c, tok)
  \/ \E c \in Conns : JoinRoomStart(c, "r1")
  \/ \E t \in BagToSet(tasks) : JoinRoomAfterMember(t)
  \/ \E c \in Conns : JoinNotifications(c)
  \/ \E c \in Conns, k \in ChatIds : JoinChatStart(c, k)
  \/ \E t \in BagToSet(tasks) : JoinChatAfterParticipant(t)
  \/ \E c \in Conns, k \in ChatIds : LeaveChat(c, k)
  \/ \E c \in Conns, k \in ChatIds, content \in Contents : SendDmStart(c, k, content)
  \/ \E t \in BagToSet(tasks) : SendDmAfterParticipant(t)
  \/ \E t \in BagToSet(tasks) : SendDmAfterCreate(t)
  \/ \E t \in BagToSet(tasks) : SendDmAfterUpdate(t)
  \/ \E c \in Conns, k \in ChatIds : DmTypingStart(c, k)
  \/ \E c \in Conns, k \in ChatIds : DmTypingStop(c, k)
  \/ \E c \in Conns : Disconnect(c)
  \/ Deliver

SpecChat == Init /\ [][NextChat]_vars

\* chat k1 when MaxSenders send-dm events of its participant's connection
\* have been received back to back and their handlers await the participant
\* lookup; the connection has joined the chat's channel or not
DmContents == {<<"a">>, <<" ", "a", " ">>}

DmSenders == [1..MaxSenders -> DmContents]

RECURSIVE SendDmTasks(_, _)
SendDmTasks(f, n) ==
  IF n = 0 THEN EmptyBag
  ELSE SendDmTasks(f, n - 1)
         (+) SetToBag({Task("c1", "send-dm", "participant", "k1", f[n], TRUE, 0)})

InitDm ==
  /\ status = [c \in Conns |-> "connected"]
  /\ user = [c1 |-> "u1", c2 |-> "u2"]
  /\ currentRoom = [c \in Conns |-> None]
  /\ \E J \in SUBSET {"c1"} :
       channels = [ch \in ChannelNames |-> IF ch = ChatChannel("k1") THEN J ELSE {}]
  /\ members = {}
  /\ messages = <<>>
  /\ chatUpdatedAt = [k \in Chats |-> 0]
  /\ now = 0
  /\ tasks \in {SendDmTasks(f, MaxSenders) : f \in DmSenders}
  /\ out = EmptyBag
  /\ res = NoRes
  /\ requests = [q \in RequestRows |-> NoRequest]
  /\ chats = <<>>

\* the handlers insert, update the chat and broadcast in any interleaving
NextDm ==
  \/ \E t \in BagToSet(tasks) : SendDmAfterParticipant(t)
  \/ \E t \in BagToSet(tasks) : SendDmAfterCreate(t)
  \/ \E t \in BagToSet(tasks) : SendDmAfterUpdate(t)
  \/ Deliver

SpecDm == InitDm /\ [][NextDm]_vars

FirstJoin == "r1"

LastJoin == "r2"

InitJoins ==
  /\ status = [c \in Conns |-> "connected"]
  /\ user = [c1 |-> "u1", c2 |-> "u2"]
  /\ currentRoom = [c \in Conns |-> None]
  /\ channels = [ch \in ChannelNames |-> {c \in Conns : ch = UserChannel(user[c])}]
  /\ members = {<<"p1", "u2">>}
  /\ messages = <<>>
  /\ chatUpdatedAt = [k \in Chats |-> 0]
  /\ now = 0
  /\ tasks = SetToBag({Task("c1", "join-room", "member", FirstJoin, <<>>, FALSE, 0),
                       Task("c1", "join-room", "member", LastJoin, <<>>, FALSE, 0),
                       Task("c2", "join-room", "member", FirstJoin, <<>>, TRUE, 0)})
  /\ out = EmptyBag
  /\ res = NoRes
  /\ requests = [q \in RequestRows |-> NoRequest]
  /\ chats = <<>>

\* the lookups return in any order; the clients send typing events and
\* messages to the rooms
NextJoins ==
  \/ \E t \in BagToSet(tasks) : JoinRoomAfterMember(t)
  \/ \E c \in Conns, r \in Rooms : TypingStart(c, r)
  \/ \E c \in Conns, r \in Rooms : TypingStop(c, r)
  \/ \E c \in Conns, r \in Rooms, content \in Contents : SendMessageStart(c, r, content)
  \/ \E t \in BagToSet(tasks) : SendMessageAfterMember(t)
  \/ \E t \in BagToSet(tasks) : SendMessageAfterCreate(t)
  \/ Deliver

SpecJoins == InitJoins /\ [][NextJoins]_vars

\* the history route over a quiescent message table: any table of room
\* messages the gateway can have written (the clock reads 1 first, then the
\* same or the next value at every insert), with any member rows
HistTables ==
  {q \in UNION {[1..n -> [roomId : Rooms, createdAt : 1..MaxHist]] : n \in 0..MaxHist} :
     /\ Len(q) > 0 => q[1].createdAt = 1
     /\ \A i \in 1..(Len(q) - 1) :
          q[i + 1].createdAt \in {q[i].createdAt, q[i].createdAt + 1}}

InitHist ==
  /\ status = [c \in Conns |-> "new"]
  /\ user = [c \in Conns |-> None]
  /\ currentRoom = [c \in Conns |-> None]
  /\ channels = [ch \in ChannelNames |-> {}]
  /\ members \in SUBSET (Pods \X Joiners)
  /\ \E q \in HistTables :
       messages = [i \in 1..Len(q) |->
                     [id |-> i, roomId |-> q[i].roomId, chatId |-> None,
                      senderId |-> "u1", content |-> <<"a">>,
                      createdAt |-> q[i].createdAt]]
  /\ chatUpdatedAt = [k \in Chats |-> 0]
  /\ now = IF messages = <<>> THEN 0 ELSE messages[Len(messages)].createdAt
  /\ tasks = EmptyBag
  /\ out = EmptyBag
  /\ res = NoRes
  /\ requests = [q \in RequestRows |-> NoRequest]
  /\ chats = <<>>

NextHist ==
  \/ \E u \in HttpUsers, r \in RoomIds, lim \in Limits, cur \in Cursors :
       GetMessages(u, r, lim, cur)
  \/ Deliver

SpecHist == InitHist /\ [][NextHist]_vars

\* room r1 with the pod owner's connection and a member's connection in it,
\* when MaxSenders send-message events of its occupants have been received
\* back to back and their handlers await the member lookup
Senders == [1..MaxSenders -> Conns]

RECURSIVE SendTasks(_, _)
SendTasks(f, n) ==
  IF n = 0 THEN EmptyBag
  ELSE SendTasks(f, n - 1)
         (+) SetToBag({Task(f[n], "send-message", "member", "r1", <<"a">>,
                            f[n] = "c2", 0)})

InitOrder ==
  /\ status = [c \in Conns |-> "connected"]
  /\ user = [c1 |-> "u1", c2 |-> "u2"]
  /\ currentRoom = [c \in Conns |-> "r1"]
  /\ channels = [ch \in ChannelNames |->
                   IF ch = RoomChannel("r1") THEN Conns
                   ELSE {c \in Conns : ch = UserChannel(user[c])}]
  /\ members = {<<"p1", "u2">>}
  /\ messages = <<>>
  /\ chatUpdatedAt = [k \in Chats |-> 0]
  /\ now = 0
  /\ tasks \in {SendTasks(f, MaxSenders) : f \in Senders}
  /\ out = EmptyBag
  /\ res = NoRes
  /\ requests = [q \in RequestRows |-> NoRequest]
  /\ chats = <<>>

\* the handlers write and broadcast in any interleaving; the owner reads the
\* history of the room
NextOrder ==
  \/ \E t \in BagToSet(tasks) : SendMessageAfterMember(t)
  \/ \E t \in BagToSet(tasks) : SendMessageAfterCreate(t)
  \/ GetMessages("u1", "r1", DefaultLimit, 0)
  \/ Deliver

SpecOrder == InitOrder /\ [][NextOrder]_vars

----------------------------------------------------------------------------
\* Properties

\* the events of a step, as a set
Events(o) == BagToSet(o)

\* the connections an emit to channel ch reaches
Audience(ch) == {d \in channels[ch] : status[d] = "connected"}

\* the handler of task t read a member row, or its user owns the pod
Passed(t) == t.found \/ PodOwner[RoomPod[t.target]] = user[t.conn]

\* the step received an event of this kind and suspended its handler t at
\* the membership lookup
Started(t, kind) ==
  /\ t.kind = kind /\ t.pc = "member"
  /\ CopiesIn(t, tasks') = CopiesIn(t, tasks) + 1

\* the lookup of handler t read the member row as it is in this step
ReadMemberRow(t) == t.found = (<<RoomPod[t.target], user[t.conn]>> \in members)

\* out' is exactly one event `ev` for c from its own handler, if c is connected
OnlyToSelf(c, ev, o) ==
  /\ \A e \in Events(o) : e.to = c /\ e.by = c /\ e.ev = ev /\ CopiesIn(e, o) = 1
  /\ Cardinality(Events(o)) = IF status[c] = "connected" THEN 1 ELSE 0

\* C1: for an existing room R, join-room(R) ends with room-joined and the
\* connection in R's channel exactly when the user owns R's pod or had a
\* member row of it when the lookup ran; otherwise the requester alone gets
\* an error and no channel changes.
C1_JoinRoomIffAuthorized ==
  [][/\ \A t \in BagToSet(tasks') : Started(t, "join-room") => ReadMemberRow(t)
     /\ \A t \in BagToSet(tasks) :
          JoinRoomAfterMember(t) =>
            IF Passed(t)
            THEN /\ t.conn \in channels'[t.target]
                 /\ \A e \in Events(out') : e.ev # "error"
                 /\ status[t.conn] = "connected" =>
                      \E e \in Events(out') :
                        /\ e.to = t.conn /\ e.ev = "room-joined"
                        /\ e.arg = t.target /\ CopiesIn(e, out') = 1
            ELSE /\ channels' = channels
                 /\ currentRoom' = currentRoom
                 /\ OnlyToSelf(t.conn, "error", out')]_vars

\* a member that does not own the pod has been acknowledged
C1_Witness ==
  \E e \in Events(out) :
    /\ e.ev = "room-joined" /\ e.to = "c2" /\ user["c2"] # PodOwner["p1"]
    /\ "c2" \in channels[e.arg]

\* C2: a send-message to R by a user that neither owns R's pod nor had a
\* member row when the lookup ran is rejected: no message is persisted and
\* no new-message is delivered.
C2_NonMemberSendRejected ==
  [][/\ \A t \in BagToSet(tasks') : Started(t, "send-message") => ReadMemberRow(t)
     /\ \A t \in BagToSet(tasks) :
          (SendMessageAfterMember(t) /\ ~Passed(t)) =>
            /\ messages' = messages
            /\ tasks' = tasks (-) SetToBag({t})
            /\ \A e \in Events(out') : e.ev # "new-message"
            /\ OnlyToSelf(t.conn, "error", out')]_vars

\* a non-member's send has been refused
C2_Witness ==
  \E e \in Events(out) :
    /\ e.op = "send-message"
    /\ e.arg = "You must be a member of this pod to send messages"
    /\ messages = <<>>

\* content is made of whitespace only (the empty string included)
Whitespace(content) == \A i \in 1..Len(content) : content[i] = " "

\* C3: a send-message or send-dm with empty or whitespace-only content is
\* rejected with an error to the sender only, whatever the target and the
\* sender's rights: nothing is persisted, no chat timestamp moves, no handler
\* is left running and nothing else is delivered.
C3_BlankContentRejected ==
  [][\A c \in Conns, content \in Contents :
       Whitespace(content) =>
         /\ \A r \in RoomIds :
              SendMessageStart(c, r, content) =>
                /\ OnlyToSelf(c, "error", out')
                /\ UNCHANGED <<messages, chatUpdatedAt, tasks, channels>>
         /\ \A k \in ChatIds :
              SendDmStart(c, k, content) =>
                /\ OnlyToSelf(c, "error", out')
                /\ UNCHANGED <<messages, chatUpdatedAt, tasks, channels>>]_vars

\* a blank direct message of a participant has been refused
C3_Witness ==
  \E e \in Events(out) :
    /\ e.op = "send-dm" /\ e.arg = "Message content is required"
    /\ user[e.to] \in ChatParticipants["k1"]

\* q is content without the whitespace at its two ends
IsTrimOf(q, content) ==
  /\ q # <<>> /\ q[1] # " " /\ q[Len(q)] # " "
  /\ \E i \in 1..Len(content) :
       /\ i + Len(q) - 1 <= Len(content)
       /\ q = SubSeq(content, i, i + Len(q) - 1)
       /\ \A j \in 1..Len(content) :
            (j < i \/ j > i + Len(q) - 1) => content[j] = " "

\* C4: a send-message with non-blank content by an authorized sender to an
\* existing room R persists exactly one Message (trimmed content, the
\* connection's user as sender, room R) and delivers exactly one new-message
\* carrying it to every connection in R's channel at broadcast time.
C4_SendPersistsAndBroadcasts ==
  [][\A t \in BagToSet(tasks) :
       /\ (SendMessageAfterMember(t) /\ Passed(t)) =>
            /\ Len(messages') = Len(messages) + 1
            /\ SubSeq(messages', 1, Len(messages)) = messages
            /\ LET m == messages'[Len(messages')]
               IN /\ IsTrimOf(m.content, t.content)
                  /\ m.senderId = user[t.conn]
                  /\ m.roomId = t.target
                  /\ m.chatId = None
                  /\ \E u \in BagToSet(tasks') :
                       u.conn = t.conn /\ u.pc = "created" /\ u.msg = m.id
            /\ out' = EmptyBag
       /\ SendMessageAfterCreate(t) =>
            /\ messages' = messages
            /\ tasks' = tasks (-) SetToBag({t})
            /\ messages[t.msg].roomId = t.target
            /\ messages[t.msg].senderId = user[t.conn]
            /\ \A d \in Audience(RoomChannel(t.target)) :
                 \E e \in Events(out') :
                   /\ e.to = d /\ e.ev = "new-message" /\ e.msg = t.msg
                   /\ CopiesIn(e, out') = 1
            /\ Cardinality(Events(out')) =
                 Cardinality(Audience(RoomChannel(t.target)))]_vars

\* a padded message has reached both occupants of its room, trimmed
C4_Witness ==
  \E e, f \in Events(out) :
    /\ e.ev = "new-message" /\ f.ev = "new-message"
    /\ e.to = "c1" /\ f.to = "c2" /\ e.msg = f.msg
    /\ messages[e.msg].content = <<"a">>

\* the channel and the event of the broadcast of send handler t
SendChannel(t) ==
  IF t.kind = "send-message" THEN RoomChannel(t.target) ELSE ChatChannel(t.target)

SendEvent(t) == IF t.kind = "send-message" THEN "new-message" ELSE "new-dm"

\* the broadcast step of send handler t
Broadcasts(t) == SendMessageAfterCreate(t) \/ SendDmAfterUpdate(t)

\* the step delivered to connection d exactly one `ev` carrying message id
Echoed(d, ev, id) ==
  \E e \in Events(out') :
    /\ e.to = d /\ e.ev = ev /\ e.msg = id /\ CopiesIn(e, out') = 1
    /\ \A f \in Events(out') : (f.to = d) => f = e

\* C5 as stated: the broadcast of every successful send-message or send-dm
\* reaches the (connected) sender, joined to the target channel or not.
C5_EchoAlways ==
  [][\A t \in BagToSet(tasks) :
       (Broadcasts(t) /\ status[t.conn] = "connected") =>
         Echoed(t.conn, SendEvent(t), t.msg)]_vars

\* C5: the broadcast of a successful send-message or send-dm reaches the
\* sender, exactly once, exactly when the sending connection is connected and
\* in the target room's or chat's channel at broadcast time; a sender that
\* has not joined, or has left, gets nothing.
C5_EchoIffInChannel ==
  [][\A t \in BagToSet(tasks) :
       Broadcasts(t) =>
         IF status[t.conn] = "connected" /\ t.conn \in channels[SendChannel(t)]
         THEN Echoed(t.conn, SendEvent(t), t.msg)
         ELSE \A e \in Events(out') : e.to # t.conn]_vars

\* a direct message has come back to its sender
C5_Witness ==
  \E e \in Events(out) :
    /\ e.ev = "new-dm" /\ e.to = e.by
    /\ messages[e.msg].senderId = user[e.to]

\* C6: leave-room(R) by a connection whose active room is not R (another
\* room, or none) changes nothing and delivers nothing.
C6_LeaveOtherRoomNoOp ==
  [][\A c \in Conns, r \in RoomIds :
       (LeaveRoom(c, r) /\ currentRoom[c] # r) =>
         /\ out' = EmptyBag
         /\ UNCHANGED <<status, user, currentRoom, channels, members, messages,
                        chatUpdatedAt, now, tasks>>]_vars

\* a connection that can be asked to leave r1 while it is in r1's channel
\* and its active room is r2, with another occupant in r1
C6_Witness ==
  \E c, d \in Conns :
    /\ Idle /\ status[c] = "connected" /\ status[d] = "connected" /\ c # d
    /\ currentRoom[c] = "r2"
    /\ {c, d} \subseteq channels[RoomChannel("r1")]

\* C7: leave-room(R) by a connection whose active room is R takes it out of
\* R's channel, clears its active room, delivers exactly one user-left to
\* every other connection still in the channel and room-left to the leaver;
\* a new-message only reaches connections of the channel it is addressed to,
\* and only a completed join-room puts a connection into a room's channel.
C7_LeaveActiveRoom ==
  [][/\ \A c \in Conns, r \in RoomIds :
          (LeaveRoom(c, r) /\ currentRoom[c] = r) =>
            /\ channels' = [channels EXCEPT ![RoomChannel(r)] = @ \ {c}]
            /\ currentRoom' = [currentRoom EXCEPT ![c] = None]
            /\ \A d \in Audience(RoomChannel(r)) \ {c} :
                 \E e \in Events(out') :
                   e.to = d /\ e.ev = "user-left" /\ CopiesIn(e, out') = 1
            /\ \E e \in Events(out') :
                 e.to = c /\ e.ev = "room-left" /\ e.arg = r /\ CopiesIn(e, out') = 1
            /\ \A e \in Events(out') : (e.to = c) = (e.ev = "room-left")
            /\ Cardinality(Events(out')) =
                 Cardinality(Audience(RoomChannel(r)) \ {c}) + 1
     /\ \A e \in Events(out') :
          e.ev = "new-message" => e.to \in channels[RoomChannel(e.arg)]
     /\ \A c \in Conns, r \in Rooms :
          (c \notin channels[RoomChannel(r)] /\ c \in channels'[RoomChannel(r)]) =>
            \E t \in BagToSet(tasks) :
              JoinRoomAfterMember(t) /\ t.conn = c /\ t.target = r]_vars

\* a leave has been acknowledged and announced to another occupant
C7_Witness ==
  \E e, f \in Events(out) :
    /\ e.ev = "room-left" /\ f.ev = "user-left" /\ f.by = e.to /\ f.to # e.to
    /\ e.to \notin channels[RoomChannel(e.arg)]
    /\ currentRoom[e.to] = None

\* the join-room of task t completes for a connection already in the channel
Rejoins(t) ==
  JoinRoomAfterMember(t) /\ Passed(t) /\ t.conn \in channels[RoomChannel(t.target)]

\* the acknowledgment and single membership of a repeated join
RejoinAcked(t) ==
  /\ channels' = channels
  /\ status[t.conn] = "connected" =>
       \E e \in Events(out') :
         e.to = t.conn /\ e.ev = "room-joined" /\ CopiesIn(e, out') = 1

\* C8 as stated: a join-room(R) of a connection already joined to R is
\* acknowledged, keeps the single membership and broadcasts no user-joined.
C8_SecondJoinSilent ==
  [][\A t \in BagToSet(tasks) :
       Rejoins(t) =>
         /\ RejoinAcked(t)
         /\ \A e \in Events(out') : e.ev # "user-joined"]_vars

\* C8: a join-room(R) of a connection already joined to R is acknowledged
\* with another room-joined, leaves the connection's single membership of
\* R's channel as it is, and again delivers one user-joined to every other
\* occupant of the channel.
C8_SecondJoinBroadcastsAgain ==
  [][\A t \in BagToSet(tasks) :
       Rejoins(t) =>
         /\ RejoinAcked(t)
         /\ \A d \in Audience(RoomChannel(t.target)) \ {t.conn} :
              \E e \in Events(out') :
                /\ e.to = d /\ e.ev = "user-joined" /\ e.by = t.conn
                /\ CopiesIn(e, out') = 1
         /\ \A e \in Events(out') :
              (e.ev = "user-joined") = (e.to # t.conn)]_vars

\* a second join-room(R) of a joined connection is about to complete while
\* another connection occupies R
C8_Witness ==
  \E t \in BagToSet(tasks) :
    /\ Idle /\ t.kind = "join-room" /\ t.pc = "member"
    /\ status[t.conn] = "connected"
    /\ currentRoom[t.conn] = t.target
    /\ t.conn \in channels[RoomChannel(t.target)]
    /\ Audience(RoomChannel(t.target)) \ {t.conn} # {}

\* C9: a disconnect of a connection with active room R delivers exactly one
\* user-left, addressed to R's channel, to each remaining occupant of R and
\* nothing else; a disconnect without an active room delivers nothing.
C9_DisconnectBroadcast ==
  [][\A c \in Conns :
       Disconnect(c) =>
         IF currentRoom[c] = None
         THEN out' = EmptyBag
         ELSE /\ \A d \in Audience(RoomChannel(currentRoom[c])) \ {c} :
                   \E e \in Events(out') :
                     e.to = d /\ e.ev = "user-left" /\ CopiesIn(e, out') = 1
              /\ \A e \in Events(out') :
                   /\ e.ev = "user-left"
                   /\ e.ch = RoomChannel(currentRoom[c])
                   /\ e.to \in Audience(RoomChannel(currentRoom[c])) \ {c}
              /\ Cardinality(Events(out')) =
                   Cardinality(Audience(RoomChannel(currentRoom[c])) \ {c})]_vars

\* the occupant of a room has been told that a connection dropped
C9_Witness ==
  \E e \in Events(out) :
    /\ e.op = "disconnect" /\ e.ev = "user-left"
    /\ status[e.by] = "disconnected" /\ e.ch = RoomChannel(currentRoom[e.by])

\* the messages of room r that a page before cursor cur may contain
Eligible(r, cur) ==
  {i \in 1..Len(messages) :
     /\ messages[i].roomId = r
     /\ cur # 0 => messages[i].createdAt < messages[cur].createdAt}

\* the messages of room r have pairwise distinct timestamps
DistinctTimes(r) ==
  \A i, j \in 1..Len(messages) :
    (i # j /\ messages[i].roomId = r /\ messages[j].roomId = r) =>
      messages[i].createdAt # messages[j].createdAt

\* C10: when the messages of room R have pairwise distinct timestamps, a
\* history page of limit n is the n newest messages of R (all if fewer),
\* of those strictly older than the cursor message when a cursor is given,
\* in ascending timestamp order.
C10_HistoryPage ==
  (/\ res.status = 200
   /\ res.cursor \in 0..Len(messages)
   /\ DistinctTimes(res.room)) =>
    LET body == res.body
        elig == Eligible(res.room, res.cursor)
        page == {body[i] : i \in 1..Len(body)}
    IN /\ page \subseteq elig
       /\ Len(body) = Min(res.limit, Cardinality(elig))
       /\ \A i, j \in 1..Len(body) :
            i < j => messages[body[i]].createdAt < messages[body[j]].createdAt
       /\ \A x \in elig \ page, y \in page :
            messages[x].createdAt < messages[y].createdAt

\* a full page of two that stops short of the older messages before a cursor
C10_Witness ==
  /\ res.status = 200 /\ res.cursor \in 1..Len(messages)
  /\ res.limit = 2 /\ Len(res.body) = 2
  /\ DistinctTimes(res.room)
  /\ Cardinality(Eligible(res.room, res.cursor)) > 2

\* the chats there are: the one of the start and those created since
ChatRows == Chats \cup {chats[i].id : i \in 1..Len(chats)}

\* C15: every persisted message references exactly one of a room and a
\* chat, and that room or chat exists, whether send-message, send-dm or the
\* acceptance of a message request wrote it.
C15_RoomXorChat ==
  \A i \in 1..Len(messages) :
    /\ (messages[i].roomId = None) # (messages[i].chatId = None)
    /\ messages[i].roomId # None => messages[i].roomId \in Rooms
    /\ messages[i].chatId # None => messages[i].chatId \in ChatRows

\* the table holds a message sent to a room or a chat and the initial
\* message of an accepted request
C15_Witness ==
  \E i, j \in 1..Len(messages) :
    /\ messages[i].roomId \in Rooms \/ messages[i].chatId \in Chats
    /\ \E n \in 1..Len(chats) :
         messages[j].chatId = chats[n].id /\ messages[j].roomId = None

\* C16: every persisted message has non-empty content without whitespace at
\* either end, whichever operation wrote it, the acceptance of a message
\* request included.
C16_ContentTrimmed ==
  \A i \in 1..Len(messages) :
    /\ messages[i].content # <<>>
    /\ messages[i].content[1] # " "
    /\ messages[i].content[Len(messages[i].content)] # " "

\* body is a newest page of size n of the messages S: the newest of S,
\* oldest first
NewestPage(body, S, n) ==
  LET page == {body[i] : i \in 1..Len(body)}
  IN /\ page \subseteq S
     /\ Len(body) = Min(n, Cardinality(S))
     /\ Cardinality(page) = Len(body)
     /\ \A i, j \in 1..Len(body) :
          i < j => messages[body[i]].createdAt <= messages[body[j]].createdAt
     /\ \A x \in S \ page, y \in page :
          messages[x].createdAt <= messages[y].createdAt

\* C11: a history request whose cursor names no message is answered as the
\* same request without a cursor: the same status, and on success a newest
\* page of the room (of min(limit, messages of the room) messages), not an
\* error and not an empty list.
C11_MissingCursorIgnored ==
  (res.status # 0 /\ res.cursor > Len(messages)) =>
    /\ res.status =
         IF res.room \notin Rooms THEN 404
         ELSE IF /\ PodOwner[RoomPod[res.room]] # res.user
                 /\ <<RoomPod[res.room], res.user>> \notin members
         THEN 403
         ELSE 200
    /\ res.status = 200 =>
         NewestPage(res.body, Eligible(res.room, 0), res.limit)

\* a request with a dangling cursor got the two newest of three messages
C11_Witness ==
  /\ res.status = 200 /\ res.cursor > Len(messages)
  /\ Len(res.body) = 2
  /\ Cardinality(Eligible(res.room, 0)) > 2

\* the tokens that verify and are signed for a row of the user table
ValidTokens == {"tok-u1", "tok-u2"}

\* the handlers of socket events
SocketKinds == {"join-room", "send-message", "join-chat", "send-dm"}

\* C12: a handshake without a token, with a token that does not verify, or
\* with a token of a user id that is not in the user table is refused; a
\* refused connection stays refused, has no user, is in no channel, runs no
\* handler and emits and receives nothing.  Every running handler and every
\* delivered event belongs to a connection with a user of the user table.
C12_RefusedHandshake ==
  [][/\ \A c \in Conns, tok \in Tokens \ ValidTokens :
          Connect(c, tok) =>
            status'[c] = "refused" /\ user'[c] = None /\ channels' = channels
     /\ \A c \in Conns :
          status[c] = "refused" =>
            /\ status'[c] = "refused" /\ user'[c] = None
            /\ \A ch \in ChannelNames : c \notin channels'[ch]
            /\ \A t \in BagToSet(tasks') : t.kind \in SocketKinds => t.conn # c
            /\ \A e \in Events(out') : e.by # c /\ e.to # c
     /\ \A t \in BagToSet(tasks') :
          t.kind \in SocketKinds =>
            /\ user'[t.conn] \in Users
            /\ status'[t.conn] \in {"connected", "disconnected"}
     /\ \A e \in Events(out') : user'[e.by] \in Users /\ user'[e.to] \in Users]_vars

\* one connection was refused while the other one's join was handled
C12_Witness ==
  /\ status["c2"] = "refused"
  /\ \E e \in Events(out) : e.to = "c1" /\ e.ev = "room-joined"

\* C13: every connected connection is in the notification channel of its
\* own user and in no other user's, whatever events the clients have sent
\* (join-notifications included, and room ids that spell a channel name).
C13_OwnNotificationChannel ==
  \A c \in Conns :
    status[c] = "connected" =>
      /\ user[c] \in Users
      /\ \A u \in Users : (c \in channels[UserChannel(u)]) = (u = user[c])

\* both connections are connected, one has re-confirmed its channel and the
\* other sits in a room and a chat
C13_Witness ==
  /\ \A c \in Conns : status[c] = "connected"
  /\ \E e \in Events(out) : e.ev = "notifications-joined" /\ e.to = "c2"
  /\ currentRoom["c1"] = "r1" /\ "c1" \in channels[ChatChannel("k1")]

TypingStep(c, r, ev) ==
  \/ TypingStart(c, r) /\ ev = "user-typing"
  \/ TypingStop(c, r) /\ ev = "user-stopped-typing"

\* C20: typing-start / typing-stop for R delivers one user-typing /
\* user-stopped-typing to every other connection in R's channel when R is
\* the sender's active room and nothing otherwise; the sender gets nothing
\* and no other state changes.
C20_TypingGated ==
  [][\A c \in Conns, r \in RoomIds \cup ChannelLikeIds,
        ev \in {"user-typing", "user-stopped-typing"} :
       TypingStep(c, r, ev) =>
         /\ UNCHANGED <<status, user, currentRoom, channels, members, messages,
                        chatUpdatedAt, now, tasks, requests, chats>>
         /\ IF currentRoom[c] = r
            THEN /\ \A d \in Audience(RoomChannel(r)) \ {c} :
                      \E e \in Events(out') :
                        /\ e.to = d /\ e.ev = ev /\ e.arg = r
                        /\ CopiesIn(e, out') = 1
                 /\ \A e \in Events(out') :
                      e.ev = ev /\ e.to \in Audience(RoomChannel(r)) \ {c}
                 /\ Cardinality(Events(out')) =
                      Cardinality(Audience(RoomChannel(r)) \ {c})
            ELSE out' = EmptyBag]_vars

\* the other occupant of the active room has been told that c types
C20_Witness ==
  \E e \in Events(out) :
    /\ e.ev = "user-typing" /\ e.to # e.by
    /\ currentRoom[e.by] = e.arg

\* the step received an event of this kind and suspended its handler t at
\* the participant lookup
StartedChat(t, kind) ==
  /\ t.kind = kind /\ t.pc = "participant"
  /\ CopiesIn(t, tasks') = CopiesIn(t, tasks) + 1

\* the lookup of handler t read the participant row as it is in this step
ReadParticipantRow(t) ==
  t.found = (t.target \in Chats /\ user[t.conn] \in ChatParticipants[t.target])

\* C17: join-chat(C) puts the connection into C's channel and sends it
\* chat-joined exactly when its user had a participant row of C when the
\* lookup ran; otherwise the joiner gets an error and no channel changes.
\* Nothing is delivered to any other connection.
C17_JoinChatIffParticipant ==
  [][/\ \A t \in BagToSet(tasks') : StartedChat(t, "join-chat") => ReadParticipantRow(t)
     /\ \A t \in BagToSet(tasks) :
          JoinChatAfterParticipant(t) =>
            IF t.found
            THEN /\ channels' = [channels EXCEPT ![ChatChannel(t.target)] =
                                   @ \cup {t.conn}]
                 /\ OnlyToSelf(t.conn, "chat-joined", out')
            ELSE /\ channels' = channels
                 /\ OnlyToSelf(t.conn, "error", out')]_vars

\* a participant has been let into its chat
C17_Witness ==
  \E e \in Events(out) :
    /\ e.ev = "chat-joined" /\ e.arg \in Chats
    /\ user[e.to] \in ChatParticipants[e.arg]
    /\ e.to \in channels[ChatChannel(e.arg)]

\* C18: a send-dm whose participant lookup found no row creates no partial
\* state: no message, no change of the chat's last-activity timestamp, no
\* new-dm, and one error to the sender only.
C18_NonParticipantDmRejected ==
  [][/\ \A t \in BagToSet(tasks') : StartedChat(t, "send-dm") => ReadParticipantRow(t)
     /\ \A t \in BagToSet(tasks) :
          (SendDmAfterParticipant(t) /\ ~t.found) =>
            /\ UNCHANGED <<messages, chatUpdatedAt, channels, now>>
            /\ tasks' = tasks (-) SetToBag({t})
            /\ OnlyToSelf(t.conn, "error", out')]_vars

\* the direct message of a user outside every chat has been refused
C18_Witness ==
  \E e \in Events(out) :
    /\ e.op = "send-dm" /\ e.arg = "You are not a participant of this chat"
    /\ \A k \in Chats : user[e.to] \notin ChatParticipants[k]
    /\ messages = <<>> /\ \A k \in Chats : chatUpdatedAt[k] = 0

\* the error messages of the authorization failures
NotAuthorized ==
  {"You must be a member of this pod to join this room",
   "You must be a member of this pod to send messages",
   "You are not a participant of this chat"}

\* every event of the step is an error with a message of M
ErrorsIn(M) == \A e \in Events(out') : e.ev = "error" /\ e.arg \in M

\* rooms: a missing room is answered 'Room not found', a room the user may
\* not access with a not-authorized message
RoomOutcomes ==
  /\ \A c \in Conns, r \in RoomIds \ Rooms :
       /\ JoinRoomStart(c, r) => ErrorsIn({"Room not found"})
       /\ \A content \in Contents :
            (SendMessageStart(c, r, content) /\ ~Whitespace(content)) =>
              ErrorsIn({"Room not found"})
  /\ \A t \in BagToSet(tasks) :
       ((JoinRoomAfterMember(t) \/ SendMessageAfterMember(t)) /\ ~Passed(t)) =>
         ErrorsIn(NotAuthorized)

\* the step rejects the chat event of handler t
ChatRejected(t) ==
  (JoinChatAfterParticipant(t) \/ SendDmAfterParticipant(t)) /\ ~t.found

\* C19: for rooms and for chats, an event aimed at a target that does not
\* exist is answered with a not-found error, which is not one of the errors
\* given for an existing target the user may not access.
C19_NotFoundDistinct ==
  [][/\ RoomOutcomes
     /\ \A t \in BagToSet(tasks) :
          ChatRejected(t) =>
            IF t.target \in Chats
            THEN ErrorsIn(NotAuthorized)
            ELSE \A e \in Events(out') :
                   e.ev = "error" /\ e.arg \notin NotAuthorized]_vars

\* C21: an error event goes only to the connection whose event caused it,
\* and the step that reports a not-found, unauthorized, validation or
\* internal failure delivers nothing else to anyone.
C21_ErrorsToOriginOnly ==
  \A e \in Events(out) :
    e.ev = "error" =>
      /\ e.to = e.by /\ e.ch = None
      /\ \A f \in Events(out) : f = e
      /\ CopiesIn(e, out) = 1

\* a send has failed inside the store while another connection shares a
\* room with the sender
C21_Witness ==
  \E e \in Events(out), d \in Conns, r \in Rooms :
    /\ e.ev = "error" /\ e.arg = "Failed to send message"
    /\ d # e.to /\ status[d] = "connected"
    /\ {d, e.to} \subseteq channels[RoomChannel(r)]

\* the user of connection c neither owns the pod of room r nor has a member
\* row of it
Outsider(c, r) ==
  /\ PodOwner[RoomPod[r]] # user[c]
  /\ <<RoomPod[r], user[c]>> \notin members

\* C22: a send-message to R received from a connection that is in R's
\* channel, after its user's member row has been removed, reads no member
\* row and is rejected: nothing is persisted or broadcast, the sender gets
\* the error, and the connection stays in R's channel with its active room.
C22_SendAfterRemovalRejected ==
  [][/\ \A t \in BagToSet(tasks') :
          (/\ Started(t, "send-message")
           /\ t.conn \in channels[RoomChannel(t.target)]
           /\ Outsider(t.conn, t.target)) => ~t.found
     /\ \A t \in BagToSet(tasks) :
          (/\ SendMessageAfterMember(t)
           /\ ~t.found /\ PodOwner[RoomPod[t.target]] # user[t.conn]
           /\ t.conn \in channels[RoomChannel(t.target)]) =>
            /\ UNCHANGED <<messages, channels, currentRoom>>
            /\ tasks' = tasks (-) SetToBag({t})
            /\ \A e \in Events(out') :
                 e.to = t.conn /\ e.ev = "error"
                 /\ e.arg = "You must be a member of this pod to send messages"
            /\ status[t.conn] = "connected" => out' # EmptyBag]_vars

\* the send of a removed member has been refused while its connection is in
\* the room's channel and the room is its active room
C22_Witness ==
  \E e \in Events(out) :
    /\ e.op = "send-message"
    /\ e.arg = "You must be a member of this pod to send messages"
    /\ \E r \in Rooms :
         /\ e.to \in channels[RoomChannel(r)] /\ currentRoom[e.to] = r
         /\ Outsider(e.to, r)

\* C23: a history request for room R is answered with messages only when
\* the requester owns R's pod or has a member row of it at request time; a
\* missing room is answered 404 and any other requester 403, both without
\* messages.  Every message of a page belongs to R, whatever message the
\* cursor names.
C23_HistoryAuthorized ==
  res.status # 0 =>
    /\ res.status \in {200, 403, 404}
    /\ res.status = 404 <=> res.room \notin Rooms
    /\ res.status = 200 <=>
         /\ res.room \in Rooms
         /\ \/ PodOwner[RoomPod[res.room]] = res.user
            \/ <<RoomPod[res.room], res.user>> \in members
    /\ res.status # 200 => res.body = <<>>
    /\ \A i \in 1..Len(res.body) :
         /\ res.body[i] \in 1..Len(messages)
         /\ messages[res.body[i]].roomId = res.room

\* a member has been given a page of a room with a cursor that names a
\* message of another room, and the table holds newer messages of that
\* other room
C23_Witness ==
  /\ res.status = 200 /\ res.user # PodOwner["p1"]
  /\ res.cursor \in 1..Len(messages)
  /\ messages[res.cursor].roomId # res.room
  /\ res.body # <<>>
  /\ \E i \in 1..Len(messages) :
       /\ messages[i].roomId # res.room
       /\ messages[i].createdAt < messages[res.cursor].createdAt

\* every connection in a room's channel belongs to the owner or a member of
\* the room's pod
AudienceAuthorized ==
  \A r \in Rooms : \A c \in channels[RoomChannel(r)] : ~Outsider(c, r)

\* every new-message is delivered to a connection of the owner or a member
\* of the pod of the message's room
RecipientsAuthorized ==
  \A e \in Events(out) :
    e.ev = "new-message" => ~Outsider(e.to, messages[e.msg].roomId)

\* C24: in every state, every connection in room R's channel belongs to a
\* user who is now the owner or a member of R's pod, and a new-message of R
\* is never delivered to a connection of a user whose membership has been
\* removed.
C24_AudienceIsOwnerAndMembers == AudienceAuthorized /\ RecipientsAuthorized

\* C25: every dm-user-typing and dm-user-stopped-typing delivered for chat
\* C was caused by a connection of a participant of C; the typing event of a
\* non-participant delivers nothing.
C25_DmTypingByParticipants ==
  \A e \in Events(out) :
    e.ev \in {"dm-user-typing", "dm-user-stopped-typing"} =>
      e.arg \in Chats /\ user[e.by] \in ChatParticipants[e.arg]

\* C26: a send-message whose lookup read a member row that has been removed
\* before the write still persists its message, and the broadcast that
\* follows reaches every connection of the room's channel; neither step
\* sends an error.
C26_RevokedInGapStillSent ==
  [][\A t \in BagToSet(tasks) :
       /\ (SendMessageAfterMember(t) /\ t.found /\ Outsider(t.conn, t.target)) =>
            /\ Len(messages') = Len(messages) + 1
            /\ SubSeq(messages', 1, Len(messages)) = messages
            /\ messages'[Len(messages')].roomId = t.target
            /\ messages'[Len(messages')].senderId = user[t.conn]
            /\ out' = EmptyBag
            /\ \E u \in BagToSet(tasks') :
                 /\ u.conn = t.conn /\ u.kind = "send-message"
                 /\ u.pc = "created" /\ u.msg = Len(messages')
       /\ (SendMessageAfterCreate(t) /\ Outsider(t.conn, t.target)) =>
            /\ messages' = messages
            /\ \A e \in Events(out') : e.ev = "new-message" /\ e.msg = t.msg
            /\ {e.to : e \in Events(out')} = Audience(RoomChannel(t.target))]_vars

\* the gap: a send handler has read the member row of its user, the row has
\* been removed since, and the message is not written yet
C26_Witness ==
  \E t \in BagToSet(tasks) :
    /\ t.kind = "send-message" /\ t.pc = "member" /\ t.found
    /\ Outsider(t.conn, t.target)
    /\ messages = <<>>

\* the message of index i is written and its broadcast has not run yet
AwaitsBroadcast(i) ==
  \E u \in BagToSet(tasks) :
    u.kind = "send-message" /\ u.pc = "created" /\ u.msg = i

\* C27: the new-message events of a room are delivered in ascending order
\* of the messages' creation timestamps, the order in which the history of
\* the room lists them: when a message is broadcast, no message of the room
\* with an earlier timestamp is still to be broadcast.
C27_BroadcastInTimestampOrder ==
  [][\A t \in BagToSet(tasks) :
       SendMessageAfterCreate(t) =>
         \A i \in 1..Len(messages) :
           (/\ messages[i].roomId = t.target
            /\ messages[i].createdAt < messages[t.msg].createdAt) =>
             ~AwaitsBroadcast(i)]_vars

\* the step ends send handler t with an error
SendRefused(t) ==
  \/ SendMessageFails(t)
  \/ SendDmFails(t)
  \/ SendMessageAfterMember(t) /\ ~Passed(t)
  \/ SendDmAfterParticipant(t) /\ ~t.found

\* C28: a send-message or send-dm ends either with an error to the sender,
\* no message persisted and nothing broadcast, or with its message persisted
\* and broadcast and no error: a handler that ends with an error, 'Failed to
\* send message' included, has inserted no message.
C28_ErrorOrMessage ==
  [][\A t \in BagToSet(tasks) :
       /\ SendRefused(t) =>
            /\ t.msg = 0
            /\ UNCHANGED <<messages, chatUpdatedAt>>
            /\ OnlyToSelf(t.conn, "error", out')
       /\ Broadcasts(t) =>
            /\ t.msg \in 1..Len(messages)
            /\ \A e \in Events(out') : e.ev = SendEvent(t) /\ e.msg = t.msg]_vars

\* C29: a message delivered as new-message or new-dm is in the message
\* table, with the room or chat of the event and the emitting connection's
\* user as sender; for a new-dm the chat's updatedAt has been written.
C29_PersistedBeforeFanOut ==
  \A e \in Events(out) :
    e.ev \in {"new-message", "new-dm"} =>
      /\ e.msg \in 1..Len(messages)
      /\ messages[e.msg].id = e.msg
      /\ messages[e.msg].senderId = user[e.by]
      /\ e.ev = "new-message" =>
           messages[e.msg].roomId = e.arg /\ messages[e.msg].chatId = None
      /\ e.ev = "new-dm" =>
           /\ messages[e.msg].chatId = e.arg /\ messages[e.msg].roomId = None
           /\ chatUpdatedAt[e.arg] > 0

\* a direct message has been delivered to a connection of its chat
C29_Witness ==
  \E e \in Events(out) :
    /\ e.ev = "new-dm" /\ e.ch = ChatChannel(e.arg)
    /\ messages[e.msg].chatId = e.arg
    /\ chatUpdatedAt[e.arg] > 0

\* C30: no two chats have the same two participants, whatever requests are
\* created, accepted and rejected, in both directions and concurrently.
C30_OneChatPerPair ==
  /\ \A i, j \in 1..Len(chats) :
       chats[i].participants = chats[j].participants => i = j
  /\ \A i \in 1..Len(chats), k \in Chats :
       chats[i].participants # ChatParticipants[k]

\* the chats created for request q
ChatsOf(q) == {i \in 1..Len(chats) : chats[i].request = q}

\* C31: a request leaves PENDING at most once and keeps the status it was
\* given; at most one chat is created for it, and only when its status is
\* and stays ACCEPTED; every such chat is between the request's sender and
\* its receiver, two distinct users.
C31_ProcessedOnce ==
  [][\A q \in RequestRows :
       /\ requests[q].status \in {"ACCEPTED", "REJECTED"} =>
            requests'[q].status = requests[q].status
       /\ Cardinality({i \in 1..Len(chats') : chats'[i].request = q}) <= 1
       /\ \A i \in 1..Len(chats') :
            chats'[i].request = q =>
              /\ requests'[q].status = "ACCEPTED"
              /\ chats'[i].participants = {RequestSender[q], RequestReceiver[q]}
              /\ RequestSender[q] # RequestReceiver[q]]_vars

\* no join-room handler of connection c is in flight
JoinsFinished(c) ==
  \A t \in BagToSet(tasks) : ~(t.kind = "join-room" /\ t.conn = c)

\* when the handlers of its join-room events have finished, the active room
\* of a connection is the room of the join-room it sent last
LastJoinWins == JoinsFinished("c1") => currentRoom["c1"] = LastJoin

\* a leave-room(R) sent after a join-room(R) that has not finished leaves the
\* connection without an active room and outside R's channel
LeaveAfterJoinWins ==
  JoinsFinished("c2") =>
    /\ currentRoom["c2"] = None
    /\ "c2" \notin channels[RoomChannel(FirstJoin)]

\* C32: once the handlers of a connection's join-room events have finished,
\* its active room is the room of the last join-room it sent, however the
\* lookups interleave; and a leave-room(R) sent after an unfinished
\* join-room(R) leaves it with no active room and outside R's channel.
C32_LastEventWins == LastJoinWins /\ LeaveAfterJoinWins

\* the step runs the continuation of a join handler of a connection that
\* has disconnected
JoinsAfterDisconnect(t) ==
  /\ status[t.conn] = "disconnected"
  /\ JoinRoomAfterMember(t) \/ JoinChatAfterParticipant(t)

\* C33: a join handler that continues after its connection has disconnected
\* does not add the connection to a room or chat channel, does not set its
\* active room and does not broadcast user-joined for it.
C33_NoJoinAfterDisconnect ==
  [][\A t \in BagToSet(tasks) :
       JoinsAfterDisconnect(t) =>
         /\ channels' = channels
         /\ currentRoom' = currentRoom
         /\ \A e \in Events(out') : e.ev # "user-joined"]_vars

\* the write step of send handler t, its authorization passed
Writes(t) ==
  \/ SendMessageAfterMember(t) /\ Passed(t)
  \/ SendDmAfterParticipant(t) /\ t.found

\* C34: a send handler whose connection disconnected while it was suspended
\* goes on: its write step persists exactly one message, and its broadcast
\* step delivers the message to the connections then in the target channel.
C34_DisconnectDoesNotAbortSend ==
  [][\A t \in BagToSet(tasks) :
       status[t.conn] = "disconnected" =>
         /\ Writes(t) =>
              /\ Len(messages') = Len(messages) + 1
              /\ SubSeq(messages', 1, Len(messages)) = messages
              /\ messages'[Len(messages')].senderId = user[t.conn]
              /\ \E u \in BagToSet(tasks') :
                   /\ u.conn = t.conn /\ u.kind = t.kind
                   /\ u.pc = "created" /\ u.msg = Len(messages')
              /\ \A e \in Events(out') : e.ev # "error"
         /\ Broadcasts(t) =>
              /\ messages' = messages
              /\ t.msg \in 1..Len(messages)
              /\ \A e \in Events(out') : e.ev = SendEvent(t) /\ e.msg = t.msg
              /\ {e.to : e \in Events(out')} = Audience(SendChannel(t))]_vars

\* the message of a sender that has disconnected has reached the other
\* occupant of the room
C34_Witness ==
  \E e \in Events(out) :
    /\ e.ev = "new-message" /\ status[e.by] = "disconnected"
    /\ e.to # e.by
    /\ messages[e.msg].senderId = user[e.by]

\* the step ends a join-room of connection c in an error: the room does not
\* exist, the user is neither member nor owner, or a lookup rejected
JoinRoomEndsInError(c) ==
  \/ \E r \in RoomIds : ~RoomExists(r) /\ JoinRoomStart(c, r)
  \/ \E t \in BagToSet(tasks) :
       /\ t.conn = c
       /\ \/ JoinRoomAfterMember(t) /\ ~Passed(t)
          \/ JoinRoomFails(t)

\* C35: a join-room that ends in an error changes neither the active room
\* nor any channel, and delivers nothing but the error to the requester.
C35_FailedJoinChangesNothing ==
  [][\A c \in Conns :
       JoinRoomEndsInError(c) =>
         /\ channels' = channels
         /\ currentRoom' = currentRoom
         /\ OnlyToSelf(c, "error", out')
         /\ \A e \in Events(out') : e.op = "join-room"]_vars

\* a join-room of a connection that is in r1 with another connection has
\* failed, and the connection is still in r1
C35_Witness ==
  \E e \in Events(out) :
    /\ e.ev = "error" /\ e.op = "join-room" /\ e.arg = "Failed to join room"
    /\ currentRoom[e.to] = "r1"
    /\ e.to \in channels[RoomChannel("r1")]
    /\ \E d \in Audience(RoomChannel("r1")) : d # e.to

\* the events of a chat: a direct message or a typing indicator
ChatEvents == {"new-dm", "dm-user-typing", "dm-user-stopped-typing"}

Handled(k) ==
  {messages[i].createdAt : i \in {j \in 1..Len(messages) :
      /\ messages[j].chatId = k
      /\ \A t \in BagToSet(tasks) : t.msg = j => t.pc = "updated"}}

\* C37: the updatedAt of a chat never decreases, and when no send-dm handler
\* is in flight it is not earlier than the creation time of any direct
\* message of the chat that was sent.
C37_UpdatedAtMonotone ==
  [][\A k \in Chats :
       /\ chatUpdatedAt'[k] >= chatUpdatedAt[k]
       /\ tasks' = EmptyBag =>
            \A at \in Handled(k)' : chatUpdatedAt'[k] >= at]_vars

\* the ids of the messages of room r
RoomMessages(r) == {i \in 1..Len(messages) : messages[i].roomId = r}

\* the ids of a page
PageIds(page) == {page[i] : i \in 1..Len(page)}

\* a client that has the ids `got` and asks for the page before message cur,
\* then for the page before the oldest message of each page it
\* is given, meets no id twice and has every message of the room when an
\* empty page ends the walk, whatever pages the route answers with
RECURSIVE WalkOk(_, _, _, _)
WalkOk(r, lim, cur, got) ==
  \A page \in Pages(r, lim, cur) :
    IF page = <<>> THEN got = RoomMessages(r)
    ELSE /\ PageIds(page) \cap got = {}
         /\ WalkOk(r, lim, page[1], got \cup PageIds(page))

\* C38: paging backwards through the history of a room from a first page
\* asked for without a cursor, with a limit of at least one, returns every
\* message of the room exactly once.
C38_PagingReturnsAllOnce ==
  res.status = 200 /\ res.cursor = 0 /\ res.limit >= 1 =>
    IF res.body = <<>> THEN RoomMessages(res.room) = {}
    ELSE WalkOk(res.room, res.limit, res.body[1], PageIds(res.body))

\* C39: the messages of a page are in the order of creation time, and those
\* of equal creation time in the order they were inserted.
C39_TiesInInsertionOrder ==
  res.status = 200 =>
    \A i, j \in 1..Len(res.body) :
      i < j =>
        \/ messages[res.body[i]].createdAt < messages[res.body[j]].createdAt
        \/ /\ messages[res.body[i]].createdAt = messages[res.body[j]].createdAt
           /\ res.body[i] < res.body[j]

====
